---- MODULE Spec2Model ----
(***************************************************************************)
(* Verification model of the LinguaFlow playback core:                     *)
(*   - the media store (src/src/store/mediaStore.ts),                      *)
(*   - the synchronization driver useMediaSync (src/unnamed/part_000),     *)
(*   - the cue index resolver SubtitleParser.findIndexAtTime,              *)
(*   - the subtitle parser SubtitleParser.parse,                           *)
(*   - the worker manager (src/src/services/SubtitleWorkerManager.ts).     *)
(* Times are integers in units of 5 ms (0.01 s = 2 units, 0.1 s = 20).     *)
(***************************************************************************)
EXTENDS Integers, Sequences, FiniteSets, TLC

VARIABLES store, player, drv, env, trace, calls, handler, arg, rs, ps, wm, sw,
          st, lru

vars ==
    <<store, player, drv, env, trace, calls, handler, arg, rs, ps, wm, sw,
      st, lru>>

(* ------------------------------ bounds -------------------------------- *)

\* number of cues of the subtitle list loaded into the store
NCues == 2
\* largest repetition count passed to startSegmentLoop
MaxReps == 3
\* most frame callbacks that may be pending without being referenced by rafIdRef
MaxOrphans == 1
\* longest cue list and latest instant given to the resolver on its own
MaxCuesR == 3
MaxTimeR == 4
\* most lines of a text given to the parser on its own
MaxLines == 4
\* most requests dispatched to the worker
MaxRequests == 2
\* longest sentence given to the resume delay on its own, in quarter seconds
MaxDur == 8
\* largest of the consecutive millisecond fields given to the timestamp round trip
MaxMs == 12
\* largest capacity of the LRU cache; the keys are one more than that
MaxCap == 3

(* ----------------------------- constants ------------------------------ *)

\* the value null of pointA / pointB / timer and frame handles
Null == -1000
\* the number NaN as an argument
NaN == -2000
\* 0.01 s, the frame de-duplication threshold
Eps == 2
\* 0.1 s, the lead of the shadowing trigger before the end of a cue
ShadowLead == 20
\* -1 s, the value of lastTimeRef before the first frame and after a pause
NoTime == -200

(* ------------------------------- cues --------------------------------- *)

\* cue i (0-based) lasts 2 s and is followed by a 1 s gap
CueStart(i) == 200 + 600 * i
CueEnd(i) == CueStart(i) + 400
MkCue(i) == [id |-> i, start |-> CueStart(i), end |-> CueEnd(i)]
CueList(n) == [k \in 1..n |-> MkCue(k - 1)]
Cues == CueList(NCues)

\* JavaScript array access subtitles[i] on a 0-based index known to be in range
At(list, i) == list[i + 1]

\* the instants at which the player is observed: two instants 5 ms apart
\* before the first cue, and for each cue its start, an instant inside the
\* shadowing lead, and its end
CueTimes(i) == { CueStart(i), CueEnd(i) - 10, CueEnd(i) }
Times == {0, 1} \cup UNION { CueTimes(i) : i \in 0..(NCues - 1) }

(* --------------------- JavaScript number comparison ------------------- *)

isNaN(x) == x = NaN
JsLt(a, b) == ~isNaN(a) /\ ~isNaN(b) /\ a < b
JsGt(a, b) == JsLt(b, a)

(* ------------------------------- store -------------------------------- *)

\* volume is in hundredths and shadowingPauseFactor in thousandths; of
\* subtitleConfig the model carries three of the twelve settings, and it does
\* not carry duration and playbackRate
initialState ==
    [ currentTime |-> 0, playing |-> FALSE,
      volume |-> 80, videoFit |-> "contain", showInlineSubtitles |-> FALSE,
      playerRef |-> FALSE, subtitles |-> <<>>,
      activeIndex |-> -1, activeWordIndex |-> -1,
      subtitleConfig |-> [ fontSize |-> 16, showIndexAndTime |-> FALSE,
                           wordByWordHighlight |-> FALSE ],
      loopEnabled |-> FALSE, loopStart |-> 0, loopEnd |-> 0,
      segmentPlayEnabled |-> FALSE, segmentPlayEnd |-> 0,
      segmentLoopEnabled |-> FALSE, segmentLoopTotal |-> 3,
      segmentLoopCurrent |-> 0, segmentLoopIndex |-> -1,
      abRepeatEnabled |-> FALSE, pointA |-> Null, pointB |-> Null,
      shadowingEnabled |-> FALSE, shadowingPauseFactor |-> 1000 ]

\* the four practice mode flags of a store state
Modes(s) ==
    [ loop |-> s.loopEnabled, seg |-> s.segmentLoopEnabled,
      ab |-> s.abRepeatEnabled, shadow |-> s.shadowingEnabled ]

(* --------------------------- driver handles ---------------------------- *)

\* requestAnimationFrame(syncLoop) assigned to rafIdRef: a frame referenced by
\* the ref is pending; a pending frame the ref pointed to before is orphaned
requestFrame(d) ==
    [d EXCEPT !.rafId = "pending",
              !.orphans = IF d.rafId = "pending" /\ @ < MaxOrphans
                          THEN @ + 1 ELSE @]

\* startLoop without the test of rafIdRef
startLoop_always(d) == requestFrame(d)

startLoop(d) == IF d.rafId = "null" THEN requestFrame(d) ELSE d

\* cancelAnimationFrame of a handle whose frame already ran does nothing
stopLoop(d) == IF d.rafId # "null" THEN [d EXCEPT !.rafId = "null"] ELSE d

\* the store subscription of the frame effect
subscriber(d, s) ==
    IF ~d.subscribed THEN d
    ELSE IF s.playing /\ ~d.isPlaying
         THEN startLoop([d EXCEPT !.isPlaying = TRUE])
    ELSE IF ~s.playing /\ d.isPlaying
         THEN [stopLoop([d EXCEPT !.isPlaying = FALSE]) EXCEPT !.lastTime = NoTime]
    ELSE d

(* ----------------------- world = store + player ------------------------ *)
\* A handler runs on a world w = [s, p, d, tr, calls]: the store state, the
\* player, the driver's refs, the mode flags published by each set() so far
\* and the player control calls made so far.

\* zustand set(): merge, publish, notify the subscribers synchronously
Set(w, ns) ==
    [w EXCEPT !.s = ns, !.d = subscriber(w.d, ns), !.tr = Append(@, Modes(ns))]

seekTo(w, t) ==
    [w EXCEPT !.p.time = t, !.calls = Append(@, <<"seekTo", t>>)]
playVideo(w) ==
    [w EXCEPT !.p.playing = TRUE, !.calls = Append(@, <<"playVideo">>)]
pauseVideo(w) ==
    [w EXCEPT !.p.playing = FALSE, !.calls = Append(@, <<"pauseVideo">>)]

(* --------------------------- store operations -------------------------- *)

setCurrentTime(w, time) == Set(w, [w.s EXCEPT !.currentTime = time])

setPlaying(w, playing) == Set(w, [w.s EXCEPT !.playing = playing])

\* Math.max(0, Math.min(1, volume))
setVolume(w, volume) ==
    LET clamped == IF volume < 0 THEN 0 ELSE IF volume > 100 THEN 100 ELSE volume
    IN  Set(w, [w.s EXCEPT !.volume = clamped])

setVideoFit(w, fit) == Set(w, [w.s EXCEPT !.videoFit = fit])

setShowInlineSubtitles(w, show) ==
    Set(w, [w.s EXCEPT !.showInlineSubtitles = show])

setPlayerRef(w, ref) == Set(w, [w.s EXCEPT !.playerRef = ref])

\* { ...state.subtitleConfig, ...config }: config holds some of the settings
updateSubtitleConfig(w, config) ==
    Set(w, [w.s EXCEPT !.subtitleConfig =
                [k \in DOMAIN @ |-> IF k \in DOMAIN config THEN config[k]
                                    ELSE @[k]]])

setSubtitles(w, subtitles) ==
    Set(w, [w.s EXCEPT !.subtitles = subtitles, !.activeIndex = -1])

setActiveWordIndex(w, index) ==
    IF w.s.activeWordIndex = index THEN w
    ELSE Set(w, [w.s EXCEPT !.activeWordIndex = index])

\* setActiveIndex without the validity test
setActiveIndex_unchecked(w, index) ==
    IF w.s.activeIndex = index THEN w
    ELSE Set(w, [w.s EXCEPT !.activeIndex = index, !.activeWordIndex = -1])

setActiveIndex(w, index) ==
    IF w.s.activeIndex = index THEN w
    ELSE IF index >= 0 /\ index < Len(w.s.subtitles)
         THEN Set(w, [w.s EXCEPT !.activeIndex = index, !.activeWordIndex = -1])
    ELSE IF index = -1
         THEN IF w.s.activeIndex # -1 \/ w.s.activeWordIndex # -1
              THEN Set(w, [w.s EXCEPT !.activeIndex = -1, !.activeWordIndex = -1])
              ELSE w
    ELSE w

disableLoop(w) ==
    Set(w, [w.s EXCEPT !.loopEnabled = FALSE, !.loopStart = 0, !.loopEnd = 0])

stopSegmentLoop(w) ==
    Set(w, [w.s EXCEPT !.segmentLoopEnabled = FALSE, !.segmentLoopTotal = 3,
                       !.segmentLoopCurrent = 0, !.segmentLoopIndex = -1,
                       !.loopStart = 0, !.loopEnd = 0])

disableABRepeat(w) == Set(w, [w.s EXCEPT !.abRepeatEnabled = FALSE])

disableShadowing(w) == Set(w, [w.s EXCEPT !.shadowingEnabled = FALSE])

enableLoop_keepShadowing(w, start, end) ==
    LET w1 == IF w.s.segmentLoopEnabled THEN stopSegmentLoop(w) ELSE w
        w2 == IF w1.s.abRepeatEnabled THEN disableABRepeat(w1) ELSE w1
    IN  Set(w2, [w2.s EXCEPT !.loopEnabled = TRUE, !.loopStart = start,
                             !.loopEnd = end])

enableLoop(w, start, end) ==
    LET w1 == IF w.s.segmentLoopEnabled THEN stopSegmentLoop(w) ELSE w
        w2 == IF w1.s.abRepeatEnabled THEN disableABRepeat(w1) ELSE w1
        w3 == IF w2.s.shadowingEnabled THEN disableShadowing(w2) ELSE w2
    IN  Set(w3, [w3.s EXCEPT !.loopEnabled = TRUE, !.loopStart = start,
                             !.loopEnd = end])

toggleLoop(w) ==
    IF w.s.loopEnabled THEN disableLoop(w)
    ELSE IF w.s.activeIndex >= 0 /\ w.s.activeIndex < Len(w.s.subtitles)
         THEN enableLoop(w, At(w.s.subtitles, w.s.activeIndex).start,
                            At(w.s.subtitles, w.s.activeIndex).end)
         ELSE w

playSegment(w, start, end) ==
    LET w1 == IF w.s.loopEnabled THEN disableLoop(w) ELSE w
        w2 == IF w1.s.segmentLoopEnabled THEN stopSegmentLoop(w1) ELSE w1
        w3 == IF w2.s.abRepeatEnabled THEN disableABRepeat(w2) ELSE w2
        w4 == IF w3.s.shadowingEnabled THEN disableShadowing(w3) ELSE w3
    IN  Set(w4, [w4.s EXCEPT !.segmentPlayEnabled = TRUE, !.segmentPlayEnd = end,
                             !.currentTime = start, !.playing = TRUE])

\* startSegmentLoop that starts playback instead of keeping the playing flag
startSegmentLoop_forcePlay(w, start, end, count, index) ==
    LET w0 == IF w.s.playerRef THEN seekTo(w, start) ELSE w
        w1 == IF w0.s.loopEnabled THEN disableLoop(w0) ELSE w0
        w2 == IF w1.s.segmentPlayEnabled
              THEN Set(w1, [w1.s EXCEPT !.segmentPlayEnabled = FALSE]) ELSE w1
        w3 == IF w2.s.abRepeatEnabled THEN disableABRepeat(w2) ELSE w2
        w4 == IF w3.s.shadowingEnabled THEN disableShadowing(w3) ELSE w3
    IN  Set(w4, [w4.s EXCEPT !.segmentLoopEnabled = TRUE, !.segmentLoopTotal = count,
                             !.segmentLoopCurrent = 0, !.segmentLoopIndex = index,
                             !.loopStart = start, !.loopEnd = end,
                             !.currentTime = start, !.playing = TRUE])

startSegmentLoop(w, start, end, count, index) ==
    LET w0 == IF w.s.playerRef THEN seekTo(w, start) ELSE w
        w1 == IF w0.s.loopEnabled THEN disableLoop(w0) ELSE w0
        w2 == IF w1.s.segmentPlayEnabled
              THEN Set(w1, [w1.s EXCEPT !.segmentPlayEnabled = FALSE]) ELSE w1
        w3 == IF w2.s.abRepeatEnabled THEN disableABRepeat(w2) ELSE w2
        w4 == IF w3.s.shadowingEnabled THEN disableShadowing(w3) ELSE w3
    IN  Set(w4, [w4.s EXCEPT !.segmentLoopEnabled = TRUE,
                             !.segmentLoopTotal = count,
                             !.segmentLoopCurrent = 0,
                             !.segmentLoopIndex = index,
                             !.loopStart = start, !.loopEnd = end,
                             !.currentTime = start,
                             !.playing = w4.s.playing])

incrementLoopCount(w) ==
    Set(w, [w.s EXCEPT !.segmentLoopCurrent = w.s.segmentLoopCurrent + 1])

playNextSegment(w) ==
    LET subtitles == w.s.subtitles
        segmentLoopIndex == w.s.segmentLoopIndex
        segmentLoopTotal == w.s.segmentLoopTotal
        currentIndex == IF segmentLoopIndex # -1 THEN segmentLoopIndex
                        ELSE w.s.activeIndex
        nextIndex == currentIndex + 1
    IN  IF Len(subtitles) = 0 THEN w
        ELSE IF nextIndex >= Len(subtitles) THEN w
        ELSE IF nextIndex < 0 THEN w
        ELSE LET nextCue == At(subtitles, nextIndex) IN
             IF segmentLoopIndex # -1
             THEN LET w1 == Set(w, [w.s EXCEPT !.playing = TRUE])
                      w2 == IF w1.s.playerRef
                            THEN playVideo(seekTo(w1, nextCue.start)) ELSE w1
                      w3 == Set(w2, [w2.s EXCEPT !.segmentLoopEnabled = FALSE,
                                                 !.segmentLoopCurrent = 0])
                  IN  startSegmentLoop(w3, nextCue.start, nextCue.end,
                                       segmentLoopTotal, nextIndex)
             ELSE LET w1 == Set(w, [w.s EXCEPT !.activeIndex = nextIndex])
                  IN  IF w1.s.playerRef THEN seekTo(w1, nextCue.start) ELSE w1

playPreviousSegment(w) ==
    LET subtitles == w.s.subtitles
        segmentLoopIndex == w.s.segmentLoopIndex
        segmentLoopTotal == w.s.segmentLoopTotal
        currentIndex == IF segmentLoopIndex # -1 THEN segmentLoopIndex
                        ELSE w.s.activeIndex
        prevIndex == currentIndex - 1
    IN  IF Len(subtitles) = 0 THEN w
        ELSE IF prevIndex < 0 THEN w
        ELSE IF prevIndex >= Len(subtitles) THEN w
        ELSE LET prevCue == At(subtitles, prevIndex) IN
             IF segmentLoopIndex # -1
             THEN LET w1 == IF w.s.playerRef
                            THEN setPlaying(playVideo(seekTo(w, prevCue.start)),
                                            TRUE)
                            ELSE w
                      w2 == Set(w1, [w1.s EXCEPT !.segmentLoopEnabled = FALSE,
                                                 !.segmentLoopCurrent = 0])
                  IN  startSegmentLoop(w2, prevCue.start, prevCue.end,
                                       segmentLoopTotal, prevIndex)
             ELSE LET w1 == Set(w, [w.s EXCEPT !.activeIndex = prevIndex])
                  IN  IF w1.s.playerRef THEN seekTo(w1, prevCue.start) ELSE w1

setPointA(w, time) ==
    IF isNaN(time) \/ JsLt(time, 0) THEN w
    ELSE Set(w, [w.s EXCEPT !.pointA = time])

setPointB_anyOrder(w, time) ==
    IF isNaN(time) \/ JsLt(time, 0) THEN w
    ELSE Set(w, [w.s EXCEPT !.pointB = time])

setPointB(w, time) ==
    IF isNaN(time) \/ JsLt(time, 0) THEN w
    ELSE IF w.s.pointA # Null /\ JsGt(time, w.s.pointA)
         THEN Set(w, [w.s EXCEPT !.pointB = time])
         ELSE w

enableABRepeat_keepOthers(w) ==
    IF w.s.pointA # Null /\ w.s.pointB # Null /\ w.s.pointB > w.s.pointA
    THEN Set(w, [w.s EXCEPT !.abRepeatEnabled = TRUE])
    ELSE w

enableABRepeat(w) ==
    IF w.s.pointA # Null /\ w.s.pointB # Null /\ w.s.pointB > w.s.pointA
    THEN LET w1 == IF w.s.segmentLoopEnabled THEN stopSegmentLoop(w) ELSE w
             w2 == IF w1.s.loopEnabled THEN disableLoop(w1) ELSE w1
             w3 == IF w2.s.shadowingEnabled THEN disableShadowing(w2) ELSE w2
         IN  Set(w3, [w3.s EXCEPT !.abRepeatEnabled = TRUE])
    ELSE w

clearABPoints(w) ==
    Set(w, [w.s EXCEPT !.pointA = Null, !.pointB = Null,
                       !.abRepeatEnabled = FALSE])

enableShadowing(w) ==
    LET w1 == IF w.s.segmentLoopEnabled THEN stopSegmentLoop(w) ELSE w
        w2 == IF w1.s.loopEnabled THEN disableLoop(w1) ELSE w1
        w3 == IF w2.s.abRepeatEnabled THEN disableABRepeat(w2) ELSE w2
    IN  Set(w3, [w3.s EXCEPT !.shadowingEnabled = TRUE])

toggleShadowing(w) ==
    IF w.s.shadowingEnabled THEN disableShadowing(w) ELSE enableShadowing(w)

setShadowingPauseFactor(w, factor) ==
    Set(w, [w.s EXCEPT !.shadowingPauseFactor = factor])

\* reset() that restores the initial state whole, preferences included
reset_everything(w) == Set(w, initialState)

\* reset keeps subtitleConfig, videoFit, showInlineSubtitles and volume
reset(w) ==
    LET subtitleConfig == w.s.subtitleConfig
        videoFit == w.s.videoFit
        showInlineSubtitles == w.s.showInlineSubtitles
        volume == w.s.volume
    IN  Set(w, [initialState EXCEPT !.subtitleConfig = subtitleConfig,
                                    !.videoFit = videoFit,
                                    !.showInlineSubtitles = showInlineSubtitles,
                                    !.volume = volume])


(* ------------------------- cue index resolver -------------------------- *)

RECURSIVE binarySearch(_, _, _, _, _)
\* the loop of findIndexAtTime: result records the last cue that starts at or
\* before time, and is returned when no cue contains time
binarySearch(cues, time, left, right, result) ==
    IF left > right THEN result
    ELSE LET mid == (left + right) \div 2
             cue == At(cues, mid)
         IN  IF time >= cue.start /\ time < cue.end THEN mid
             ELSE IF time < cue.start
                  THEN binarySearch(cues, time, left, mid - 1, result)
                  ELSE binarySearch(cues, time, mid + 1, right,
                                    IF time >= cue.start THEN mid ELSE result)

\* the hint fast path: <<i>> is a returned index, <<>> falls through to the search
hintPath(cues, time, hintIndex) ==
    IF hintIndex >= 0 /\ hintIndex < Len(cues)
    THEN LET current == At(cues, hintIndex)
             nextIndex == hintIndex + 1
         IN  IF time >= current.start /\ time < current.end THEN <<hintIndex>>
             ELSE IF nextIndex < Len(cues)
                  THEN LET next == At(cues, nextIndex)
                       IN  IF time >= next.start /\ time < next.end
                           THEN <<nextIndex>>
                           ELSE IF time >= current.end /\ time < next.start
                                THEN <<-1>>
                                ELSE <<>>
                  ELSE <<>>
    ELSE <<>>

findIndexAtTime(cues, time, hintIndex) ==
    IF Len(cues) = 0 THEN -1
    ELSE LET h == hintPath(cues, time, hintIndex)
         IN  IF h # <<>> THEN h[1]
             ELSE binarySearch(cues, time, 0, Len(cues) - 1, -1)


(* --------------------------- subtitle parser --------------------------- *)
\* A text is a sequence of lines joined by "\n"; a text that ends with a
\* newline has an empty last line.  A line is one of
\*   header  the line "WEBVTT"            num     a line of digits
\*   time    "<start> --> <end>" written in the grammar of the format the
\*           text is parsed as; a timestamp is <<hours, minutes, seconds, ms>>
\*   words   plain words                  markup  nothing but tags, "<i></i>"
\*   blank   an empty or whitespace-only line
\* Parsed times are in milliseconds.

NoStamp == <<0, 0, 0, 0>>
Stamps == { <<0, 0, 1, 0>>, <<0, 0, 2, 500>> }

MkLine(kind) == [kind |-> kind, start |-> NoStamp, end |-> NoStamp]
TimeLine(a, b) == [kind |-> "time", start |-> a, end |-> b]
LineAlphabet ==
    { MkLine(k) : k \in {"header", "num", "words", "markup", "blank"} }
    \cup { TimeLine(a, b) : a \in Stamps, b \in Stamps }

\* String.prototype.trim of a line, as the string the cue text is built from
trimLine(l) ==
    CASE l.kind = "header" -> "WEBVTT"
      [] l.kind = "num" -> "1"
      [] l.kind = "time" -> "-->"
      [] l.kind = "words" -> "w"
      [] l.kind = "markup" -> "<i></i>"
      [] OTHER -> ""

\* text.trim().length === 0
isBlankText(lines) == \A k \in 1..Len(lines) : lines[k].kind = "blank"

\* the lines of text.trim()
RECURSIVE trimText(_)
trimText(lines) ==
    IF Len(lines) = 0 THEN lines
    ELSE IF lines[1].kind = "blank" THEN trimText(Tail(lines))
    ELSE IF lines[Len(lines)].kind = "blank"
         THEN trimText(SubSeq(lines, 1, Len(lines) - 1))
    ELSE lines

detectFormat(lines) ==
    LET trimmed == trimText(lines) IN
    IF Len(trimmed) > 0 /\ trimmed[1].kind = "header" THEN "vtt"
    ELSE IF Len(trimmed) > 0 /\ trimmed[1].kind = "num" THEN "srt"
    ELSE "unknown"

\* text.split(/\n\s*\n/): the pattern needs a newline on both sides of the
\* whitespace, so a single blank line that is the first or the last line of
\* the text stays in its block; every other blank line separates blocks
isSeparator(lines, k) ==
    /\ lines[k].kind = "blank"
    /\ ~(k = 1 /\ (Len(lines) = 1 \/ lines[2].kind # "blank"))
    /\ ~(k = Len(lines)
         /\ (Len(lines) = 1 \/ lines[Len(lines) - 1].kind # "blank"))

\* the blocks of text.split(/\n\s*\n/).filter(block => block.trim())
RECURSIVE splitFrom(_, _, _, _)
splitFrom(lines, k, cur, acc) ==
    LET flush == IF cur # <<>> /\ ~isBlankText(cur) THEN Append(acc, cur)
                 ELSE acc
    IN  IF k > Len(lines) THEN flush
        ELSE IF isSeparator(lines, k) THEN splitFrom(lines, k + 1, <<>>, flush)
        ELSE splitFrom(lines, k + 1, Append(cur, lines[k]), acc)

splitBlocks(lines) == splitFrom(lines, 1, <<>>, <<>>)

\* HH:MM:SS,mmm or HH:MM:SS.mmm to a time
parseTimestamp(ts) == ((ts[1] * 60 + ts[2]) * 60 + ts[3]) * 1000 + ts[4]

\* lines.join('\n') of trimmed lines, kept as the sequence of its lines; the
\* string is empty when there is no line or one empty line
joinLines(block) == [k \in 1..Len(block) |-> trimLine(block[k])]
isEmptyString(str) == str = <<>> \/ str = <<"">>

\* cleanVTTText: tags go, whitespace (line breaks too) collapses, ends trimmed
cleanVTTText(block) ==
    joinLines(SelectSeq(block,
                        LAMBDA l : l.kind \in {"header", "num", "time", "words"}))

\* parseInt(firstLine, 10) is NaN: a digit must lead (a time line leads with one)
parseIntIsNaN(l) == l.kind \notin {"num", "time"}

\* index of the first line of a block that includes "-->", 0 when none
RECURSIVE findTimeLine(_, _)
findTimeLine(block, j) ==
    IF j > Len(block) THEN 0
    ELSE IF block[j].kind = "time" THEN j
    ELSE findTimeLine(block, j + 1)

\* parseInt(line, 10) of a line that leads with a digit
parseInt(l) == IF l.kind = "num" THEN 1 ELSE 0

\* a cue id: a prefix and a number ("srt-1", "vtt-0"), or a line of the block
MkId(pre, n) == [pre |-> pre, n |-> n]

MkParsedCue(id, i, timeLine, text) ==
    [ id |-> id, index |-> i, start |-> parseTimestamp(timeLine.start),
      end |-> parseTimestamp(timeLine.end), text |-> text ]

RECURSIVE srtBlocks(_, _, _)
srtBlocks(blocks, i, cues) ==
    IF i > Len(blocks) THEN cues
    ELSE LET lines == blocks[i] IN
         IF Len(lines) < 3 THEN srtBlocks(blocks, i + 1, cues)
         ELSE IF lines[1].kind = "blank" \/ parseIntIsNaN(lines[1])
         THEN srtBlocks(blocks, i + 1, cues)
         ELSE IF lines[2].kind # "time" THEN srtBlocks(blocks, i + 1, cues)
         ELSE srtBlocks(blocks, i + 1,
                  Append(cues, MkParsedCue(MkId("srt", parseInt(lines[1])),
                             i - 1, lines[2],
                             joinLines(SubSeq(lines, 3, Len(lines))))))

parseSRT(lines) == srtBlocks(splitBlocks(lines), 1, <<>>)

\* text.replace(/^WEBVTT.*?\n/, '')
stripHeader(lines) ==
    IF Len(lines) >= 2 /\ lines[1].kind = "header" THEN Tail(lines) ELSE lines

RECURSIVE vttBlocks(_, _, _)
vttBlocks(blocks, i, cues) ==
    IF i > Len(blocks) THEN cues
    ELSE LET lines == blocks[i]
             timeLineIndex == findTimeLine(lines, 1)
         IN  IF timeLineIndex = 0 THEN vttBlocks(blocks, i + 1, cues)
             ELSE LET id == IF timeLineIndex > 1
                               /\ lines[timeLineIndex - 1].kind # "blank"
                            THEN MkId(trimLine(lines[timeLineIndex - 1]), -1)
                            ELSE MkId("vtt", i - 1)
                  IN  vttBlocks(blocks, i + 1,
                          Append(cues, MkParsedCue(id, i - 1,
                                     lines[timeLineIndex],
                                     cleanVTTText(SubSeq(lines,
                                         timeLineIndex + 1, Len(lines))))))

parseVTT(lines) == vttBlocks(splitBlocks(stripHeader(lines)), 1, <<>>)

\* SubtitleParser.parse; format "none" is the omitted argument
parse(lines, format) ==
    IF isBlankText(lines) THEN <<>>
    ELSE LET detectedFormat == IF format # "none" THEN format
                               ELSE detectFormat(lines)
         IN  CASE detectedFormat = "srt" -> parseSRT(lines)
               [] detectedFormat = "vtt" -> parseVTT(lines)
               [] OTHER -> <<>>

(* ------------------------------ worker code ---------------------------- *)
\* The inline worker script the manager runs (getWorkerCode).

\* a progress message is posted before every ProgressEvery-th block
ProgressEvery == 50

RECURSIVE workerSrtBlocks(_, _, _)
workerSrtBlocks(blocks, i, cues) ==
    IF i > Len(blocks) THEN cues
    ELSE LET lines == blocks[i] IN
         IF Len(lines) < 3 THEN workerSrtBlocks(blocks, i + 1, cues)
         ELSE IF parseIntIsNaN(lines[1]) THEN workerSrtBlocks(blocks, i + 1, cues)
         ELSE IF lines[2].kind # "time" THEN workerSrtBlocks(blocks, i + 1, cues)
         ELSE workerSrtBlocks(blocks, i + 1,
                  Append(cues, MkParsedCue(MkId("srt", parseInt(lines[1])),
                             i - 1, lines[2],
                             joinLines(SubSeq(lines, 3, Len(lines))))))

\* the worker takes the first line for the time line when none has "-->",
\* keeps the markup and skips a cue whose text is empty
RECURSIVE workerVttBlocks(_, _, _)
workerVttBlocks(blocks, i, cues) ==
    IF i > Len(blocks) THEN cues
    ELSE LET lines == blocks[i]
             found == findTimeLine(lines, 1)
             timeLineIndex == IF found = 0 THEN 1 ELSE found
             text == joinLines(SubSeq(lines, timeLineIndex + 1, Len(lines)))
         IN  IF lines[timeLineIndex].kind # "time"
             THEN workerVttBlocks(blocks, i + 1, cues)
             ELSE IF isEmptyString(text)
             THEN workerVttBlocks(blocks, i + 1, cues)
             ELSE workerVttBlocks(blocks, i + 1,
                      Append(cues, MkParsedCue(MkId("vtt", i - 1), i - 1,
                                 lines[timeLineIndex], text)))

\* the blocks the worker loops over for a text and a format; <<>> when the
\* text is blank, and for a format the worker throws on
workerBlocks(lines, detectedFormat) ==
    IF isBlankText(lines) THEN <<>>
    ELSE CASE detectedFormat = "srt" -> splitBlocks(lines)
           [] detectedFormat = "vtt" -> splitBlocks(stripHeader(lines))
           [] OTHER -> <<>>

\* one message of the worker: id -1 stands for a message without an id field
MkMessage(type, id, data, error, progress, from) ==
    [ type |-> type, id |-> id, data |-> data, error |-> error,
      progress |-> progress, from |-> from ]

\* the progress messages of one parse: { type: 'progress', progress }
RECURSIVE progressMessages(_, _, _, _)
progressMessages(total, i, from, acc) ==
    IF i >= total THEN acc
    ELSE progressMessages(total, i + 1, from,
             IF i % ProgressEvery = 0
             THEN Append(acc, MkMessage("progress", -1, <<>>, "",
                                        (i * 100) \div total, from))
             ELSE acc)

\* the worker's message listener for one request: the messages it posts
workerOnMessage(request) ==
    LET lines == request.text
        detectedFormat == IF request.format # "none" THEN request.format
                          ELSE detectFormat(lines)
        blocks == workerBlocks(lines, detectedFormat)
        progress == progressMessages(Len(blocks), 0, request.id, <<>>)
    IN  IF isBlankText(lines)
        THEN << MkMessage("result", request.id, <<>>, "", -1, request.id) >>
        ELSE CASE detectedFormat = "srt" ->
                    Append(progress,
                           MkMessage("result", request.id,
                                     workerSrtBlocks(blocks, 1, <<>>), "", -1,
                                     request.id))
               [] detectedFormat = "vtt" ->
                    Append(progress,
                           MkMessage("result", request.id,
                                     workerVttBlocks(blocks, 1, <<>>), "", -1,
                                     request.id))
               [] OTHER ->
                    << MkMessage("error", request.id, <<>>, "Unknown format",
                                 -1, request.id) >>

(* ----------------------------- worker manager -------------------------- *)
\* m.promise[id + 1], m.value[id + 1], m.error[id + 1] and m.progress[id + 1]
\* are the promise returned for request id, what it settled with, and the
\* number of calls of its onProgress callback.  m.texts[id + 1] is the text the
\* request was made with.

\* the manager after its constructor: ok says whether Worker exists and
\* initWorker succeeded
newManager(ok) ==
    [ isSupported |-> ok, worker |-> ok, alive |-> ok,
      requestIdCounter |-> 0, pendingRequests |-> {}, onProgress |-> {},
      promise |-> <<>>, value |-> <<>>, error |-> <<>>, progress |-> <<>>,
      ids |-> <<>>, invoked |-> <<>>,
      timers |-> {}, inbox |-> <<>>, outbox |-> <<>>,
      sync |-> [called |-> FALSE, text |-> <<>>, format |-> "none",
                result |-> <<>>],
      terminated |-> FALSE, atTerminate |-> {}, texts |-> <<>> ]

\* resolve / reject of a promise: every call is counted in invoked, and only
\* the first call settles the promise
resolve(m, id, data) ==
    LET m1 == [m EXCEPT !.invoked[id + 1] = @ + 1] IN
    IF m1.promise[id + 1] = "pending"
    THEN [m1 EXCEPT !.promise[id + 1] = "resolved", !.value[id + 1] = data]
    ELSE m1

reject(m, id, error) ==
    LET m1 == [m EXCEPT !.invoked[id + 1] = @ + 1] IN
    IF m1.promise[id + 1] = "pending"
    THEN [m1 EXCEPT !.promise[id + 1] = "rejected", !.error[id + 1] = error]
    ELSE m1

\* the listener that resolves on a result and leaves the request in the
\* pending table
handleMessage_keepPending(m, msg) ==
    IF msg.id \notin m.pendingRequests THEN m
    ELSE CASE msg.type = "result" -> resolve(m, msg.id, msg.data)
           [] msg.type = "error" ->
                [reject(m, msg.id, msg.error)
                    EXCEPT !.pendingRequests = @ \ {msg.id}]
           [] OTHER ->
                IF msg.id \in m.onProgress /\ msg.progress # -1
                THEN [m EXCEPT !.progress[msg.id + 1] = @ + 1]
                ELSE m

handleMessage(m, msg) ==
    IF msg.id \notin m.pendingRequests THEN m
    ELSE CASE msg.type = "result" ->
                [resolve(m, msg.id, msg.data)
                    EXCEPT !.pendingRequests = @ \ {msg.id}]
           [] msg.type = "error" ->
                [reject(m, msg.id, msg.error)
                    EXCEPT !.pendingRequests = @ \ {msg.id}]
           [] OTHER ->
                IF msg.id \in m.onProgress /\ msg.progress # -1
                THEN [m EXCEPT !.progress[msg.id + 1] = @ + 1]
                ELSE m

\* the worker's error event: every pending request is rejected
handleError(m) ==
    [m EXCEPT !.promise = [k \in DOMAIN m.promise |->
                              IF (k - 1) \in m.pendingRequests
                                 /\ m.promise[k] = "pending"
                              THEN "rejected" ELSE m.promise[k]],
              !.error = [k \in DOMAIN m.error |->
                              IF (k - 1) \in m.pendingRequests
                                 /\ m.promise[k] = "pending"
                              THEN "Worker error" ELSE m.error[k]],
              !.invoked = [k \in DOMAIN m.invoked |->
                              IF (k - 1) \in m.pendingRequests
                              THEN m.invoked[k] + 1 ELSE m.invoked[k]],
              !.pendingRequests = {}]

\* the synchronous fallback is a stub
parseFallback(text, format) == <<>>

\* the manager's parse(text, format, onProgress)
managerParse(m, text, format, withProgress) ==
    IF ~m.isSupported \/ ~m.worker
    THEN [m EXCEPT !.sync = [called |-> TRUE, text |-> text, format |-> format,
                             result |-> parseFallback(text, format)]]
    ELSE LET id == m.requestIdCounter IN
         [m EXCEPT !.requestIdCounter = @ + 1,
                   !.pendingRequests = @ \cup {id},
                   !.onProgress = IF withProgress THEN @ \cup {id} ELSE @,
                   !.promise = Append(@, "pending"),
                   !.value = Append(@, <<>>),
                   !.error = Append(@, ""),
                   !.progress = Append(@, 0),
                   !.ids = Append(@, id),
                   !.invoked = Append(@, 0),
                   !.inbox = Append(@, [id |-> id, text |-> text,
                                        format |-> format]),
                   !.timers = @ \cup {id},
                   !.texts = Append(@, text)]

\* the 30 s guard that rejects but leaves the request in the pending table
timeoutGuard_keepPending(m, id) ==
    LET m1 == [m EXCEPT !.timers = @ \ {id}] IN
    IF id \in m1.pendingRequests
    THEN reject(m1, id, "Worker timeout after 30s")
    ELSE m1

\* the 30 s guard of request id
timeoutGuard(m, id) ==
    LET m1 == [m EXCEPT !.timers = @ \ {id}] IN
    IF id \in m1.pendingRequests
    THEN reject([m1 EXCEPT !.pendingRequests = @ \ {id}], id,
                "Worker timeout after 30s")
    ELSE m1

\* terminate() without pendingRequests.clear()
terminate_keepPending(m) ==
    IF m.worker
    THEN [m EXCEPT !.worker = FALSE, !.alive = FALSE, !.inbox = <<>>]
    ELSE m

terminate(m) ==
    LET m1 == IF m.worker
              THEN [m EXCEPT !.worker = FALSE, !.alive = FALSE, !.inbox = <<>>]
              ELSE m
    IN  [m1 EXCEPT !.pendingRequests = {}]

(* --------------------- synchronization driver: tick -------------------- *)
\* The frame callback syncLoop is the closure of the render in which the frame
\* effect last ran: it reads subtitles and isBlocked as captured then
\* (d.capSubs, d.capBlocked), and the store and the refs as they are now.

\* subtitle synchronisation; word highlighting is off (the default config)
syncSubtitles(w, state, currentTime) ==
    LET subtitles == w.d.capSubs IN
    IF Len(subtitles) > 0
    THEN LET currentIndex == state.activeIndex
             newIndex == findIndexAtTime(subtitles, currentTime, currentIndex)
             w1 == IF newIndex # currentIndex THEN setActiveIndex(w, newIndex)
                   ELSE w
         IN  IF state.activeWordIndex # -1 THEN setActiveWordIndex(w1, -1)
             ELSE w1
    ELSE IF state.activeWordIndex # -1 THEN setActiveWordIndex(w, -1)
         ELSE w

\* shadowing that triggers whenever the end of the active cue is near, without
\* the tests of the waiting flag and of the cue triggered last
syncShadowing_retrigger(w, state, currentTime) ==
    LET subtitles == w.d.capSubs
        activeIndex == state.activeIndex
    IN  IF ~w.d.capBlocked /\ state.shadowingEnabled
           /\ activeIndex >= 0 /\ activeIndex < Len(subtitles)
        THEN IF currentTime >= At(subtitles, activeIndex).end - ShadowLead
             THEN LET w1 == setPlaying(pauseVideo(w), FALSE)
                  IN  [w1 EXCEPT !.d.waiting = TRUE,
                                 !.d.lastShadowIdx = activeIndex,
                                 !.d.timer = activeIndex,
                                 !.d.timerSubs = subtitles]
             ELSE w
        ELSE IF ~state.shadowingEnabled /\ w.d.waiting
             THEN [w EXCEPT !.d.waiting = FALSE, !.d.timer = Null,
                            !.d.timerSubs = <<>>]
             ELSE w

\* shadowing: pause at the end of the sentence and arm the resume timer, which
\* captures activeIndex and subtitles; or cancel the timer once shadowing is off
syncShadowing(w, state, currentTime) ==
    LET subtitles == w.d.capSubs
        activeIndex == state.activeIndex
    IN  IF ~w.d.capBlocked /\ state.shadowingEnabled
           /\ activeIndex >= 0 /\ activeIndex < Len(subtitles)
        THEN IF ~w.d.waiting /\ w.d.lastShadowIdx # activeIndex
                /\ currentTime >= At(subtitles, activeIndex).end - ShadowLead
             THEN LET w1 == setPlaying(pauseVideo(w), FALSE)
                  IN  [w1 EXCEPT !.d.waiting = TRUE,
                                 !.d.lastShadowIdx = activeIndex,
                                 !.d.timer = activeIndex,
                                 !.d.timerSubs = subtitles]
             ELSE w
        ELSE IF ~state.shadowingEnabled /\ w.d.waiting
             THEN [w EXCEPT !.d.waiting = FALSE, !.d.timer = Null,
                            !.d.timerSubs = <<>>]
             ELSE w

\* the three boundary checks run one after the other instead of as
\* alternatives, and the simple-loop check also runs under A/B repeat
syncBoundary_noPrecedence(w, state, currentTime, autoPlayNext) ==
    LET w1 == IF state.abRepeatEnabled /\ state.pointA # Null
                 /\ state.pointB # Null
                 /\ (currentTime >= state.pointB \/ currentTime < state.pointA)
              THEN seekTo(w, state.pointA) ELSE w
        w2 == IF state.segmentLoopEnabled /\ currentTime >= state.loopEnd
              THEN IF state.segmentLoopCurrent < state.segmentLoopTotal - 1
                   THEN incrementLoopCount(seekTo(w1, state.loopStart))
                   ELSE IF autoPlayNext THEN playNextSegment(w1)
                        ELSE stopSegmentLoop(pauseVideo(w1))
              ELSE w1
    IN  IF (state.loopEnabled \/ state.abRepeatEnabled)
           /\ currentTime >= state.loopEnd
        THEN seekTo(w2, state.loopStart)
        ELSE w2

\* boundary actions: A/B repeat, else segment loop, else simple loop
\* the boundary handling with one repetition too many before the loop ends
syncBoundary_oneMore(w, state, currentTime, autoPlayNext) ==
    IF state.abRepeatEnabled /\ state.pointA # Null /\ state.pointB # Null
    THEN IF currentTime >= state.pointB THEN seekTo(w, state.pointA)
         ELSE IF currentTime < state.pointA THEN seekTo(w, state.pointA)
         ELSE w
    ELSE IF state.segmentLoopEnabled /\ currentTime >= state.loopEnd
    THEN IF state.segmentLoopCurrent < state.segmentLoopTotal
         THEN incrementLoopCount(seekTo(w, state.loopStart))
         ELSE IF autoPlayNext THEN playNextSegment(w)
              ELSE stopSegmentLoop(pauseVideo(w))
    ELSE IF state.loopEnabled /\ currentTime >= state.loopEnd
    THEN seekTo(w, state.loopStart)
    ELSE w

syncBoundary(w, state, currentTime, autoPlayNext) ==
    IF state.abRepeatEnabled /\ state.pointA # Null /\ state.pointB # Null
    THEN IF currentTime >= state.pointB THEN seekTo(w, state.pointA)
         ELSE IF currentTime < state.pointA THEN seekTo(w, state.pointA)
         ELSE w
    ELSE IF state.segmentLoopEnabled /\ currentTime >= state.loopEnd
    THEN IF state.segmentLoopCurrent < state.segmentLoopTotal - 1
         THEN incrementLoopCount(seekTo(w, state.loopStart))
         ELSE IF autoPlayNext THEN playNextSegment(w)
              ELSE stopSegmentLoop(pauseVideo(w))
    ELSE IF state.loopEnabled /\ currentTime >= state.loopEnd
    THEN seekTo(w, state.loopStart)
    ELSE w

\* one-shot segment play reads the store afresh
syncSegmentPlay(w, currentTime) ==
    IF w.s.segmentPlayEnabled /\ currentTime >= w.s.segmentPlayEnd
    THEN LET w1 == pauseVideo(w)
         IN  Set(w1, [w1.s EXCEPT !.segmentPlayEnabled = FALSE])
    ELSE w

Abs(x) == IF x < 0 THEN -x ELSE x

Max(a, b) == IF a >= b THEN a ELSE b

\* the delay with the adaptive tier taken only for a factor of exactly 1.1
dynamicPauseDuration_exact(sentenceDuration, shadowingPauseFactor) ==
    IF shadowingPauseFactor = 1100
    THEN sentenceDuration * 1100 + 1000 * 1000
    ELSE IF shadowingPauseFactor <= 1000
    THEN Max(1000 * 1000, sentenceDuration * shadowingPauseFactor)
    ELSE Max(1500 * 1000, sentenceDuration * shadowingPauseFactor)

\* the delay of the resume timer, in thousandths of a millisecond, for a
\* sentence duration in milliseconds and a factor in thousandths
dynamicPauseDuration(sentenceDuration, shadowingPauseFactor) ==
    IF Abs(shadowingPauseFactor - 1100) < 10
    THEN sentenceDuration * 1100 + 1000 * 1000
    ELSE IF shadowingPauseFactor <= 1000
    THEN Max(1000 * 1000, sentenceDuration * shadowingPauseFactor)
    ELSE Max(1500 * 1000, sentenceDuration * shadowingPauseFactor)

\* the frame callback without the de-duplication of frames
syncLoop_everyFrame(w, throttle, autoPlayNext) ==
    IF ~w.p.bound THEN w
    ELSE LET currentTime == w.p.time
             w1 == [w EXCEPT !.d.lastTime = currentTime]
             state == w1.s
             w2 == IF throttle THEN setCurrentTime(w1, currentTime) ELSE w1
             w3 == syncSubtitles(w2, state, currentTime)
             w4 == syncShadowing(w3, state, currentTime)
             w5 == syncBoundary(w4, state, currentTime, autoPlayNext)
             w6 == syncSegmentPlay(w5, currentTime)
         IN  [w6 EXCEPT !.d = requestFrame(w6.d)]

\* throttle: whether more than 100 ms passed since the last setCurrentTime
syncLoop(w, throttle, autoPlayNext) ==
    IF ~w.p.bound THEN w
    ELSE LET currentTime == w.p.time IN
         IF Abs(currentTime - w.d.lastTime) < Eps
         THEN [w EXCEPT !.d = requestFrame(w.d)]
         ELSE LET w1 == [w EXCEPT !.d.lastTime = currentTime]
                  state == w1.s
                  w2 == IF throttle THEN setCurrentTime(w1, currentTime) ELSE w1
                  w3 == syncSubtitles(w2, state, currentTime)
                  w4 == syncShadowing(w3, state, currentTime)
                  w5 == syncBoundary(w4, state, currentTime, autoPlayNext)
                  w6 == syncSegmentPlay(w5, currentTime)
              IN  [w6 EXCEPT !.d = requestFrame(w6.d)]

\* the timer callback without the test for a next cue: after the last cue it
\* resumes playback where the player stands
shadowingTimeout_alwaysResume(w) ==
    LET nextIndex == w.d.timer + 1
        subtitles == w.d.timerSubs
        w1 == IF w.p.bound
              THEN setPlaying(
                       playVideo(IF nextIndex < Len(subtitles)
                                 THEN seekTo(w, At(subtitles, nextIndex).start)
                                 ELSE w),
                       TRUE)
              ELSE w
    IN  [w1 EXCEPT !.d.waiting = FALSE, !.d.timer = Null, !.d.timerSubs = <<>>]

\* the callback of the shadowing resume timer
shadowingTimeout(w) ==
    LET nextIndex == w.d.timer + 1
        subtitles == w.d.timerSubs
        w1 == IF nextIndex < Len(subtitles) /\ w.p.bound
              THEN setPlaying(
                       playVideo(seekTo(w, At(subtitles, nextIndex).start)),
                       TRUE)
              ELSE w
    IN  [w1 EXCEPT !.d.waiting = FALSE, !.d.timer = Null, !.d.timerSubs = <<>>]

\* the effect on isBlocked
blockedEffect(d, isBlocked) ==
    IF isBlocked
    THEN [d EXCEPT !.timer = Null, !.timerSubs = <<>>, !.waiting = FALSE]
    ELSE d

\* the frame effect, run with enabled and a bound player: subscribe, and start
\* the loop when the store is already playing
frameEffect(d, s, isBlocked) ==
    LET d1 == [d EXCEPT !.subscribed = TRUE, !.capSubs = s.subtitles,
                        !.capBlocked = isBlocked]
    IN  IF s.playing /\ ~d1.isPlaying
        THEN startLoop([d1 EXCEPT !.isPlaying = TRUE])
        ELSE d1

\* the cleanup of the frame effect
frameCleanup(d) == stopLoop([d EXCEPT !.subscribed = FALSE])

\* checkPausedSubtitle, the 100 ms poll
checkPausedSubtitle(w) ==
    IF ~w.s.playing /\ w.p.bound /\ Len(w.s.subtitles) > 0
    THEN LET currentTime == w.p.time
             currentIndex == w.s.activeIndex
             newIndex == findIndexAtTime(w.s.subtitles, currentTime,
                                         currentIndex)
             w1 == IF newIndex # currentIndex THEN setActiveIndex(w, newIndex)
                   ELSE w
         IN  setCurrentTime(w1, currentTime)
    ELSE w


(* ------------------------------- state --------------------------------- *)

initialPlayer == [time |-> 0, playing |-> FALSE, bound |-> FALSE]

\* the refs of useMediaSync after the first render
initialRefs ==
    [ rafId |-> "null", orphans |-> 0, lastTime |-> NoTime,
      waiting |-> FALSE, lastShadowIdx |-> -1,
      timer |-> Null, timerSubs |-> <<>>,
      isPlaying |-> FALSE, subscribed |-> FALSE,
      capSubs |-> <<>>, capBlocked |-> FALSE ]

initialEnv == [enabled |-> FALSE, isBlocked |-> FALSE, autoPlayNext |-> FALSE]

\* the resolver is exercised on its own, in SpecResolver
rsIdle == [cues |-> <<>>, time |-> 0, hint |-> -1, result |-> -1]

\* the parser is exercised on its own, in SpecParser
psIdle == [text |-> <<>>, format |-> "none", cues |-> <<>>, parsed |-> FALSE]

\* the worker manager is exercised on its own, in SpecWorker
wmIdle == newManager(TRUE)

\* the resume delay of shadowing is exercised on its own, in SpecShadowWait
swIdle == [duration |-> 0, factor |-> 0, wait |-> -1, done |-> FALSE]

\* the timestamp round trip is exercised on its own, in SpecStamp
stIdle ==
    [text |-> [stamp |-> NoStamp, sep |-> ","], seconds |-> <<>>,
     out |-> [stamp |-> NoStamp, sep |-> ","], parsed |-> FALSE,
     done |-> FALSE]

\* the cache is exercised on its own, in SpecCache
lruIdle == <<>>

Init ==
    /\ store = initialState
    /\ player = initialPlayer
    /\ drv = initialRefs
    /\ env = initialEnv
    /\ trace = <<>>
    /\ calls = <<>>
    /\ handler = "init"
    /\ arg = <<>>
    /\ rs = rsIdle
    /\ ps = psIdle
    /\ wm = wmIdle
    /\ sw = swIdle
    /\ st = stIdle
    /\ lru = lruIdle

\* the world a handler starts from
W0 == [s |-> store, p |-> player, d |-> drv, tr |-> <<>>, calls |-> <<>>]

\* a handler named h called with arguments a ends in world w
Commit(w, h, a) ==
    /\ store' = w.s
    /\ player' = w.p
    /\ drv' = w.d
    /\ trace' = w.tr
    /\ calls' = w.calls
    /\ handler' = h
    /\ arg' = a
    /\ UNCHANGED <<env, rs, ps, wm, sw, st, lru>>

(* ------------------------ calls of store operations -------------------- *)

CueIndices == 0..(Len(store.subtitles) - 1)
\* arguments of setPointA / setPointB: an instant, a negative number or NaN
PointArgs == {CueStart(0), CueEnd(0), CueStart(1), -1, NaN}
SubtitleLists == {Cues}

SetSubtitles ==
    \E l \in SubtitleLists :
        Commit(setSubtitles(W0, l), "setSubtitles", <<Len(l)>>)

EnableLoop ==
    \E i \in CueIndices :
        LET cue == At(store.subtitles, i)
        IN  Commit(enableLoop(W0, cue.start, cue.end), "enableLoop",
                   <<cue.start, cue.end>>)

DisableLoop == Commit(disableLoop(W0), "disableLoop", <<>>)

ToggleLoop == Commit(toggleLoop(W0), "toggleLoop", <<>>)

StartSegmentLoop ==
    \E i \in CueIndices, n \in 1..MaxReps :
        LET cue == At(store.subtitles, i)
        IN  Commit(startSegmentLoop(W0, cue.start, cue.end, n, i),
                   "startSegmentLoop", <<cue.start, cue.end, n, i>>)

\* a single sentence is played once (the sentence list's play button)
PlaySegment ==
    \E i \in CueIndices :
        LET cue == At(store.subtitles, i)
        IN  Commit(playSegment(W0, cue.start, cue.end), "playSegment",
                   <<cue.start, cue.end>>)

StopSegmentLoop == Commit(stopSegmentLoop(W0), "stopSegmentLoop", <<>>)

PlayNextSegment == Commit(playNextSegment(W0), "playNextSegment", <<>>)

PlayPreviousSegment ==
    Commit(playPreviousSegment(W0), "playPreviousSegment", <<>>)

SetPointA ==
    \E t \in PointArgs : Commit(setPointA(W0, t), "setPointA", <<t>>)

SetPointB ==
    \E t \in PointArgs : Commit(setPointB(W0, t), "setPointB", <<t>>)

EnableABRepeat == Commit(enableABRepeat(W0), "enableABRepeat", <<>>)

DisableABRepeat == Commit(disableABRepeat(W0), "disableABRepeat", <<>>)

ClearABPoints == Commit(clearABPoints(W0), "clearABPoints", <<>>)

EnableShadowing == Commit(enableShadowing(W0), "enableShadowing", <<>>)

DisableShadowing == Commit(disableShadowing(W0), "disableShadowing", <<>>)

ToggleShadowing == Commit(toggleShadowing(W0), "toggleShadowing", <<>>)

Reset == Commit(reset(W0), "reset", <<>>)

(* ------------------------------ view handlers -------------------------- *)

\* the key handler 'b': set point B at the store's current time, then enable
keySetPointB(w) ==
    LET currentTime == w.s.currentTime
    IN  IF w.s.pointA = Null \/ currentTime <= w.s.pointA THEN w
        ELSE enableABRepeat(setPointB(w, currentTime))

KeySetPointB == Commit(keySetPointB(W0), "keySetPointB", <<store.currentTime>>)

handleTogglePlay(w) ==
    IF w.p.bound
    THEN IF w.s.playing THEN setPlaying(pauseVideo(w), FALSE)
         ELSE setPlaying(playVideo(w), TRUE)
    ELSE w

TogglePlay == Commit(handleTogglePlay(W0), "handleTogglePlay", <<>>)

\* the player mounts: the ref is attached and synced into the store
BindPlayer ==
    /\ ~player.bound
    /\ Commit(setPlayerRef([W0 EXCEPT !.p.bound = TRUE], TRUE), "bindPlayer",
              <<>>)

\* the player's play / pause / timeupdate events reach the store by onProgress
OnProgress ==
    /\ player.bound
    /\ Commit(setPlaying(W0, player.playing), "onProgress", <<>>)

\* the media advances to the next observed instant while it plays
PlayerAdvance ==
    /\ player.bound /\ player.playing
    /\ \E t \in Times :
        /\ t > player.time
        /\ \A u \in Times : ~(player.time < u /\ u < t)
        /\ player' = [player EXCEPT !.time = t]
    /\ handler' = "playerAdvance"
    /\ arg' = <<>>
    /\ trace' = <<>>
    /\ calls' = <<>>
    /\ UNCHANGED <<store, drv, env, rs, ps, wm, sw, st, lru>>

\* onReady: enabled becomes true and the frame effect runs
PlayerReady ==
    /\ player.bound /\ ~env.enabled
    /\ env' = [env EXCEPT !.enabled = TRUE]
    /\ drv' = frameEffect(drv, store, env.isBlocked)
    /\ handler' = "playerReady"
    /\ arg' = <<>>
    /\ trace' = <<>>
    /\ calls' = <<>>
    /\ UNCHANGED <<store, player, rs, ps, wm, sw, st, lru>>

\* the source changes: the store is reset, enabled becomes false and the frame
\* effect is cleaned up; the media element restarts paused at 0
SourceChanged ==
    /\ env.enabled
    /\ LET w == reset(W0)
       IN  /\ store' = w.s
           /\ drv' = frameCleanup(w.d)
           /\ trace' = w.tr
           /\ calls' = w.calls
    /\ player' = [player EXCEPT !.time = 0, !.playing = FALSE]
    /\ env' = [env EXCEPT !.enabled = FALSE]
    /\ handler' = "sourceChanged"
    /\ arg' = <<>>
    /\ UNCHANGED <<rs, ps, wm, sw, st, lru>>

\* recording or the evaluation dialog starts / ends; the effect on isBlocked runs
SetBlocked ==
    \E b \in BOOLEAN :
        /\ b # env.isBlocked
        /\ env' = [env EXCEPT !.isBlocked = b]
        /\ drv' = blockedEffect(drv, b)
        /\ handler' = "setBlocked"
        /\ arg' = <<>>
        /\ trace' = <<>>
        /\ calls' = <<>>
        /\ UNCHANGED <<store, player, rs, ps, wm, sw, st, lru>>

\* the setting autoPlayNext is switched
SetAutoPlayNext ==
    /\ env' = [env EXCEPT !.autoPlayNext = ~env.autoPlayNext]
    /\ handler' = "setAutoPlayNext"
    /\ arg' = <<>>
    /\ trace' = <<>>
    /\ calls' = <<>>
    /\ UNCHANGED <<store, player, drv, rs, ps, wm, sw, st, lru>>

\* the key handler 'a': set point A at the store's current time
keySetPointA(w) == setPointA(w, w.s.currentTime)

KeySetPointA == Commit(keySetPointA(W0), "keySetPointA", <<store.currentTime>>)

(* ------------------------------ driver steps --------------------------- *)

\* a pending frame callback runs
Tick ==
    \E orphan \in BOOLEAN, throttle \in BOOLEAN :
        /\ IF orphan THEN drv.orphans > 0 ELSE drv.rafId = "pending"
        /\ LET d0 == IF orphan THEN [drv EXCEPT !.orphans = @ - 1]
                     ELSE [drv EXCEPT !.rafId = "stale"]
           IN  Commit(syncLoop([W0 EXCEPT !.d = d0], throttle, env.autoPlayNext),
                      "syncLoop", <<>>)

\* the shadowing resume timer fires
ShadowingTimeout ==
    /\ drv.timer # Null
    /\ Commit(shadowingTimeout(W0), "shadowingTimeout", <<drv.timer>>)

\* the 100 ms poll runs
PausedPoll ==
    /\ env.enabled /\ player.bound
    /\ Commit(checkPausedSubtitle(W0), "checkPausedSubtitle", <<>>)

(* ---------------------------- specifications --------------------------- *)

\* the store's mode operations alone
NextStore ==
    \/ SetSubtitles
    \/ EnableLoop \/ DisableLoop \/ ToggleLoop
    \/ StartSegmentLoop \/ StopSegmentLoop
    \/ PlayNextSegment \/ PlayPreviousSegment
    \/ SetPointA \/ SetPointB \/ KeySetPointB
    \/ EnableABRepeat \/ DisableABRepeat \/ ClearABPoints
    \/ EnableShadowing \/ DisableShadowing \/ ToggleShadowing
    \/ Reset

SpecStore == Init /\ [][NextStore]_vars

\* the driver with the segment loop mode
NextSegmentLoop ==
    \/ SetSubtitles \/ BindPlayer \/ PlayerReady
    \/ TogglePlay \/ OnProgress \/ PlayerAdvance
    \/ StartSegmentLoop \/ StopSegmentLoop \/ PlayNextSegment
    \/ SetAutoPlayNext
    \/ Tick \/ PausedPoll

SpecSegmentLoop == Init /\ [][NextSegmentLoop]_vars

\* the driver with the shadowing mode, blocking and teardown
Next ==
    \/ SetSubtitles \/ BindPlayer \/ PlayerReady \/ SourceChanged
    \/ TogglePlay \/ OnProgress \/ PlayerAdvance
    \/ EnableShadowing \/ DisableShadowing \/ ToggleShadowing
    \/ SetBlocked
    \/ Tick \/ ShadowingTimeout \/ PausedPoll

Spec == Init /\ [][Next]_vars

(* ----------------------- driver with bad frames ------------------------ *)

\* a tick in which player.getCurrentTime() throws: the catch logs, and the
\* next frame is requested
syncLoopThrows(w) ==
    IF ~w.p.bound THEN w ELSE [w EXCEPT !.d = requestFrame(w.d)]

\* a pending frame callback runs and reading the player throws
BadTick ==
    /\ drv.rafId = "pending"
    /\ Commit(syncLoopThrows([W0 EXCEPT !.d.rafId = "stale"]),
              "syncLoopThrows", <<>>)

\* the media fails: the view shows the error panel instead of the player, so
\* the player unmounts and playerRef.current becomes null; Retry mounts a new
\* player (BindPlayer)
PlayerError ==
    /\ player.bound
    /\ player' = initialPlayer
    /\ handler' = "playerError"
    /\ arg' = <<>>
    /\ trace' = <<>>
    /\ calls' = <<>>
    /\ UNCHANGED <<store, drv, env, rs, ps, wm, sw, st, lru>>

NextFrames ==
    \/ SetSubtitles \/ BindPlayer \/ PlayerError \/ PlayerReady
    \/ TogglePlay \/ OnProgress \/ PlayerAdvance
    \/ Tick \/ BadTick \/ PausedPoll

SpecFrames == Init /\ [][NextFrames]_vars

(* ------------------------- active cue tracking ------------------------- *)

\* a subtitle file of any length up to NCues is loaded
LoadSubtitles ==
    \E n \in 0..NCues :
        Commit(setSubtitles(W0, CueList(n)), "setSubtitles", <<n>>)

\* arguments of setActiveIndex: -1, valid indices, and indices out of range
IndexArgs == -2..(NCues + 1)

SetActiveIndex ==
    \E i \in IndexArgs : Commit(setActiveIndex(W0, i), "setActiveIndex", <<i>>)

\* arguments of setActiveWordIndex: none, the first and the second word
WordArgs == {-1, 0, 1}

SetActiveWordIndex ==
    \E i \in WordArgs :
        Commit(setActiveWordIndex(W0, i), "setActiveWordIndex", <<i>>)

\* the store operations that track the active cue and word
NextIndex ==
    \/ LoadSubtitles \/ SetActiveIndex \/ SetActiveWordIndex
    \/ PlayNextSegment \/ PlayPreviousSegment \/ Reset
    \/ StartSegmentLoop \/ StopSegmentLoop

SpecIndex == Init /\ [][NextIndex]_vars

\* the active cue under store operations and the driver's ticks and polls
NextTracking ==
    \/ LoadSubtitles \/ SetActiveIndex
    \/ PlayNextSegment \/ PlayPreviousSegment \/ Reset
    \/ BindPlayer \/ PlayerReady \/ TogglePlay \/ PlayerAdvance
    \/ Tick \/ PausedPoll

SpecTracking == Init /\ [][NextTracking]_vars

(* ------------------------- resolver on its own ------------------------- *)

CuesR == { [id |-> 0, start |-> a, end |-> b] :
               a \in 0..(MaxTimeR - 1), b \in 1..MaxTimeR }

\* cue lists as the parser yields them for a well-formed file: end > start,
\* ascending, cues apart or adjacent
WellFormed(l) ==
    /\ \A k \in 1..Len(l) : l[k].end > l[k].start
    /\ \A k \in 1..(Len(l) - 1) : l[k].end <= l[k + 1].start

CueListsR ==
    { l \in UNION { [1..n -> CuesR] : n \in 0..MaxCuesR } : WellFormed(l) }

InitResolver ==
    /\ store = initialState
    /\ player = initialPlayer
    /\ drv = initialRefs
    /\ env = initialEnv
    /\ trace = <<>>
    /\ calls = <<>>
    /\ handler = "init"
    /\ arg = <<>>
    /\ \E l \in CueListsR : rs = [rsIdle EXCEPT !.cues = l]
    /\ ps = psIdle
    /\ wm = wmIdle
    /\ sw = swIdle
    /\ st = stIdle
    /\ lru = lruIdle

\* a lookup with any hint: a valid index, -1, below -1, or past the list
Lookup ==
    \E t \in 0..MaxTimeR, h \in -2..MaxCuesR :
        /\ rs' = [rs EXCEPT !.time = t, !.hint = h,
                            !.result = findIndexAtTime(rs.cues, t, h)]
        /\ handler' = "findIndexAtTime"
        /\ UNCHANGED <<store, player, drv, env, trace, calls, arg, ps, wm, sw, st, lru>>

\* the driver's lookup: the hint is the index found before
Follow ==
    \E t \in 0..MaxTimeR :
        /\ rs' = [rs EXCEPT !.time = t, !.hint = rs.result,
                            !.result = findIndexAtTime(rs.cues, t, rs.result)]
        /\ handler' = "findIndexAtTime"
        /\ UNCHANGED <<store, player, drv, env, trace, calls, arg, ps, wm, sw, st, lru>>

NextResolver == Lookup \/ Follow

SpecResolver == InitResolver /\ [][NextResolver]_vars

(* -------------------------- parser on its own -------------------------- *)

\* every text of at most MaxLines lines
Texts == UNION { [1..n -> LineAlphabet] : n \in 0..MaxLines }

\* the format argument of parse: omitted, or given
Formats == {"none", "srt", "vtt"}

InitParser ==
    /\ store = initialState
    /\ player = initialPlayer
    /\ drv = initialRefs
    /\ env = initialEnv
    /\ trace = <<>>
    /\ calls = <<>>
    /\ handler = "init"
    /\ arg = <<>>
    /\ rs = rsIdle
    /\ wm = wmIdle
    /\ sw = swIdle
    /\ st = stIdle
    /\ lru = lruIdle
    /\ \E t \in Texts : ps = [psIdle EXCEPT !.text = t]

ParseText ==
    \E f \in Formats :
        /\ ps' = [ps EXCEPT !.format = f, !.cues = parse(ps.text, f),
                            !.parsed = TRUE]
        /\ handler' = "parse"
        /\ UNCHANGED <<store, player, drv, env, trace, calls, arg, rs, wm, sw, st, lru>>

NextParser == ParseText

SpecParser == InitParser /\ [][NextParser]_vars

(* ---------------------- worker manager on its own ---------------------- *)

SrtText ==
    << MkLine("num"), TimeLine(<<0, 0, 1, 0>>, <<0, 0, 2, 500>>),
       MkLine("words") >>
VttText ==
    << MkLine("header"), MkLine("blank"),
       TimeLine(<<0, 0, 1, 0>>, <<0, 0, 2, 500>>), MkLine("words") >>
PlainText == << MkLine("words") >>

\* the payloads handed to the manager: an SRT file, a VTT file, and a text
\* of no recognizable format
WorkerTexts == {SrtText, VttText, PlainText}

\* construction: Worker exists and initWorker succeeds, or not (Worker is
\* undefined, or initWorker throws and clears isSupported)
InitWorker ==
    /\ store = initialState
    /\ player = initialPlayer
    /\ drv = initialRefs
    /\ env = initialEnv
    /\ trace = <<>>
    /\ calls = <<>>
    /\ handler = "init"
    /\ arg = <<>>
    /\ rs = rsIdle
    /\ ps = psIdle
    /\ sw = swIdle
    /\ st = stIdle
    /\ lru = lruIdle
    /\ \E ok \in BOOLEAN : wm = newManager(ok)

\* a step of the manager named h with arguments a
CommitWorker(m, h, a) ==
    /\ wm' = m
    /\ handler' = h
    /\ arg' = a
    /\ UNCHANGED <<store, player, drv, env, trace, calls, rs, ps, sw, st, lru>>

ParseCall ==
    \E text \in WorkerTexts, withProgress \in BOOLEAN :
        /\ wm.requestIdCounter < MaxRequests
        /\ CommitWorker(managerParse(wm, text, "none", withProgress), "parse",
                        <<wm.requestIdCounter>>)

\* the worker thread handles the next request and posts its messages
WorkerRun ==
    /\ wm.alive /\ wm.inbox # <<>>
    /\ CommitWorker([wm EXCEPT !.inbox = Tail(@),
                               !.outbox = @ \o workerOnMessage(Head(wm.inbox))],
                    "workerOnMessage", <<Head(wm.inbox).id>>)

\* a message of the worker reaches the manager's listener
Deliver ==
    /\ wm.outbox # <<>>
    /\ LET msg == Head(wm.outbox)
       IN  CommitWorker(handleMessage([wm EXCEPT !.outbox = Tail(@)], msg),
                        "handleMessage", <<msg.type, msg.id, msg.from>>)

\* the worker fails on the request it is handling: the error event
WorkerError ==
    /\ wm.alive /\ wm.inbox # <<>>
    /\ CommitWorker(handleError([wm EXCEPT !.inbox = Tail(@)]), "handleError",
                    <<Head(wm.inbox).id>>)

\* 30 s have passed since request id was dispatched
Timeout ==
    \E id \in wm.timers :
        CommitWorker(timeoutGuard(wm, id), "timeout", <<id>>)

Terminate ==
    CommitWorker([terminate(wm) EXCEPT
                      !.terminated = TRUE,
                      !.atTerminate = @ \cup wm.pendingRequests],
                 "terminate", <<>>)

NextWorker ==
    \/ ParseCall \/ WorkerRun \/ Deliver \/ WorkerError \/ Timeout
    \/ Terminate

SpecWorker == InitWorker /\ [][NextWorker]_vars

\* the worker thread runs, messages arrive and timers fire
FairSpecWorker ==
    /\ SpecWorker
    /\ WF_vars(WorkerRun) /\ WF_vars(Deliver) /\ WF_vars(Timeout)

(* ------------------------------- preferences --------------------------- *)

\* argument of setVolume: a volume above the range
VolumeArgs == {150}

SetVolume == \E v \in VolumeArgs : Commit(setVolume(W0, v), "setVolume", <<v>>)

SetVideoFit ==
    \E fit \in {"cover"} : Commit(setVideoFit(W0, fit), "setVideoFit", <<fit>>)

SetShowInlineSubtitles ==
    \E show \in {TRUE} :
        Commit(setShowInlineSubtitles(W0, show), "setShowInlineSubtitles",
               <<show>>)

\* a partial setting the view passes to updateSubtitleConfig
ConfigArgs == { [showIndexAndTime |-> ~store.subtitleConfig.showIndexAndTime] }

UpdateSubtitleConfig ==
    \E config \in ConfigArgs :
        Commit(updateSubtitleConfig(W0, config), "updateSubtitleConfig", <<>>)

\* the factor of the third pause button
FactorArgs == {1500}

SetShadowingPauseFactor ==
    \E f \in FactorArgs :
        Commit(setShadowingPauseFactor(W0, f), "setShadowingPauseFactor", <<f>>)

\* the store under its preference setters, the operations that leave a mode
\* or a cue-tracking field away from its initial value, and reset
NextPrefs ==
    \/ SetVolume \/ SetVideoFit \/ SetShowInlineSubtitles
    \/ UpdateSubtitleConfig \/ SetShadowingPauseFactor
    \/ SetSubtitles \/ SetActiveIndex
    \/ ToggleLoop \/ StartSegmentLoop
    \/ KeySetPointA \/ KeySetPointB
    \/ EnableShadowing
    \/ Reset

SpecPrefs == Init /\ [][NextPrefs]_vars
(* ---------------------- shadowing delay on its own --------------------- *)

\* sentence durations in milliseconds
Durations == { 250 * k : k \in 1..MaxDur }

\* pause factors in thousandths: the three buttons (1.0, 1.1, 1.5), factors
\* around 1.1, a short one and a long one
Factors == {800, 1000, 1090, 1095, 1100, 1105, 1110, 1500, 2000}

InitShadowWait ==
    /\ store = initialState
    /\ player = initialPlayer
    /\ drv = initialRefs
    /\ env = initialEnv
    /\ trace = <<>>
    /\ calls = <<>>
    /\ handler = "init"
    /\ arg = <<>>
    /\ rs = rsIdle
    /\ ps = psIdle
    /\ wm = wmIdle
    /\ st = stIdle
    /\ lru = lruIdle
    /\ \E d \in Durations, f \in Factors :
           sw = [swIdle EXCEPT !.duration = d, !.factor = f]

\* the tick computes the delay of the timer it arms
ComputeWait ==
    /\ ~sw.done
    /\ sw' = [sw EXCEPT !.wait = dynamicPauseDuration(sw.duration, sw.factor),
                        !.done = TRUE]
    /\ handler' = "dynamicPauseDuration"
    /\ UNCHANGED <<store, player, drv, env, trace, calls, arg, rs, ps, wm, st, lru>>

NextShadowWait == ComputeWait

SpecShadowWait == InitShadowWait /\ [][NextShadowWait]_vars

(* ----------------------- driver with the three loops ------------------- *)

\* the A/B points set before the run: none, or the span of a cue
PointPairs == {<<Null, Null>>} \cup { <<CueStart(i), CueEnd(i)>> : i \in 0..(NCues - 1) }

\* the state after construction, or after setPointA(a) and setPointB(b)
InitBoundary ==
    /\ \E pair \in PointPairs :
           store = IF pair[1] = Null THEN initialState
                   ELSE setPointB(setPointA(
                            [s |-> initialState, p |-> initialPlayer,
                             d |-> initialRefs, tr |-> <<>>, calls |-> <<>>],
                            pair[1]), pair[2]).s
    /\ player = initialPlayer
    /\ drv = initialRefs
    /\ env = initialEnv
    /\ trace = <<>>
    /\ calls = <<>>
    /\ handler = "init"
    /\ arg = <<>>
    /\ rs = rsIdle
    /\ ps = psIdle
    /\ wm = wmIdle
    /\ sw = swIdle
    /\ st = stIdle
    /\ lru = lruIdle

\* the driver with simple loop, segment loop and A/B repeat
NextBoundary ==
    \/ SetSubtitles \/ BindPlayer \/ PlayerReady
    \/ TogglePlay \/ PlayerAdvance
    \/ EnableLoop \/ StartSegmentLoop \/ EnableABRepeat
    \/ Tick

SpecBoundary == InitBoundary /\ [][NextBoundary]_vars

(* ----------------------------- subtitle loader ------------------------- *)

\* 100 * 1024 bytes
WORKER_THRESHOLD == 102400

isWorkerSupported(m) == m.isSupported /\ m.worker

\* SubtitleLoader.parseContent up to its await: content is a payload with its
\* text and its size in bytes; the result is the manager and the outcome of
\* the synchronous parse
parseContent(m, p, content) ==
    LET contentSize == content.size
        format == detectFormat(content.text)
    IN  IF contentSize > WORKER_THRESHOLD /\ isWorkerSupported(m)
        THEN [wm |-> managerParse(m, content.text, format, TRUE), ps |-> p]
        ELSE [wm |-> m,
              ps |-> [text |-> content.text, format |-> format,
                      cues |-> parse(content.text, format), parsed |-> TRUE]]

\* the catch of parseContent: the worker request was rejected and the text is
\* parsed synchronously
parseContentCatch(p, text) ==
    LET format == detectFormat(text)
    IN  [text |-> text, format |-> format, cues |-> parse(text, format),
         parsed |-> TRUE]

\* payload sizes: a small file and the sizes around the threshold
Sizes == {1024, WORKER_THRESHOLD - 1, WORKER_THRESHOLD, WORKER_THRESHOLD + 1}

Contents == [text : WorkerTexts, size : Sizes]

ParseContent ==
    \E content \in Contents :
        /\ wm.requestIdCounter < MaxRequests
        /\ LET r == parseContent(wm, ps, content)
           IN  /\ wm' = r.wm
               /\ ps' = r.ps
        /\ handler' = "parseContent"
        /\ arg' = <<content.size>>
        /\ UNCHANGED <<store, player, drv, env, trace, calls, rs, sw, st, lru>>

ParseContentCatch ==
    \E id \in 0..(Len(wm.promise) - 1) :
        /\ wm.promise[id + 1] = "rejected"
        /\ ps # parseContentCatch(ps, wm.texts[id + 1])
        /\ ps' = parseContentCatch(ps, wm.texts[id + 1])
        /\ handler' = "parseContentCatch"
        /\ arg' = <<id>>
        /\ UNCHANGED <<store, player, drv, env, trace, calls, rs, wm, sw, st, lru>>

NextLoader ==
    \/ ParseContent \/ ParseContentCatch
    \/ WorkerRun \/ Deliver \/ WorkerError \/ Timeout \/ Terminate

SpecLoader == InitWorker /\ [][NextLoader]_vars

(* ------------------------ double-precision numbers --------------------- *)

\* A JavaScript number that is not negative is kept exactly, as the natural
\* number value * 2^FracBits written in NLimbs limbs of LimbBits bits, least
\* significant limb first.  Every number the timestamp code computes is a
\* multiple of 2^-FracBits below 2^(NLimbs * LimbBits - FracBits), and every
\* quotient it computes is at least 2^(53 - FracBits), so no bit is lost but
\* in RoundDouble.
FracBits == 80
LimbBits == 16
Limb == 2 ^ LimbBits
\* 48 bits for the integer part: hours up to 99 give seconds below 2^19
NLimbs == (FracBits + 48) \div LimbBits

Pow2(n) == 2 ^ n

\* the number of bits of a limb
BitsOf(n) == CHOOSE b \in 0..LimbBits : Pow2(b) > n /\ (b = 0 \/ Pow2(b - 1) <= n)

\* the limbs of f, computed once
Pack(f, n) == SubSeq(f, 1, n)

\* a number in limbs; the operators below take their operands computed
IsBig(a) == Len(a) = NLimbs

Big(n) ==
    Pack([k \in 1..NLimbs |->
            IF k = 1 THEN n % Limb ELSE IF k = 2 THEN n \div Limb ELSE 0],
         NLimbs)
Small(a) == a[1] + Limb * a[2]

BigMulSmall(a, c) ==
    LET carry[k \in 0..NLimbs] ==
            IF k = 0 THEN 0 ELSE (a[k] * c + carry[k - 1]) \div Limb
    IN  CASE IsBig(a) ->
            Pack([k \in 1..NLimbs |-> (a[k] * c + carry[k - 1]) % Limb],
                 NLimbs)

BigDivSmall(a, d) ==
    LET rem[k \in 1..(NLimbs + 1)] ==
            IF k = NLimbs + 1 THEN 0 ELSE (rem[k + 1] * Limb + a[k]) % d
    IN  CASE IsBig(a) ->
            [quot |-> Pack([k \in 1..NLimbs |->
                               (rem[k + 1] * Limb + a[k]) \div d], NLimbs),
             rem |-> rem[1]]

BigAdd(a, b) ==
    LET carry[k \in 0..NLimbs] ==
            IF k = 0 THEN 0 ELSE (a[k] + b[k] + carry[k - 1]) \div Limb
    IN  CASE IsBig(a) /\ IsBig(b) ->
            Pack([k \in 1..NLimbs |-> (a[k] + b[k] + carry[k - 1]) % Limb],
                 NLimbs)

\* a - b, for a >= b
BigSub(a, b) ==
    LET borrow[k \in 0..NLimbs] ==
            IF k = 0 THEN 0
            ELSE IF a[k] - b[k] - borrow[k - 1] < 0 THEN 1 ELSE 0
    IN  CASE IsBig(a) /\ IsBig(b) ->
            Pack([k \in 1..NLimbs |->
                     (a[k] - b[k] - borrow[k - 1] + Limb) % Limb], NLimbs)

BigLess(a, b) ==
    \E k \in 1..NLimbs :
        a[k] < b[k] /\ \A j \in (k + 1)..NLimbs : a[j] = b[j]

LimbShl(a, w) ==
    CASE IsBig(a) ->
        Pack([k \in 1..NLimbs |-> IF k > w THEN a[k - w] ELSE 0], NLimbs)
LimbShr(a, w) ==
    CASE IsBig(a) ->
        Pack([k \in 1..NLimbs |-> IF k + w <= NLimbs THEN a[k + w] ELSE 0],
             NLimbs)
BigShl(a, n) == BigMulSmall(LimbShl(a, n \div LimbBits), Pow2(n % LimbBits))
BigShr(a, n) ==
    BigDivSmall(LimbShr(a, n \div LimbBits), Pow2(n % LimbBits)).quot

BitLen(a) ==
    IF \A k \in 1..NLimbs : a[k] = 0 THEN 0
    ELSE LET top == CHOOSE k \in 1..NLimbs :
                        a[k] # 0 /\ \A j \in (k + 1)..NLimbs : a[j] = 0
         IN  LimbBits * (top - 1) + BitsOf(a[top])

\* the double nearest to a, ties to the even significand (53 bits); sticky
\* says that the number to round is a little more than a
RoundDouble(a, sticky) ==
    LET d == BitLen(a) - 53
    IN  IF d <= 0 THEN a
        ELSE LET q == BigShr(a, d)
                 low == BigSub(a, BigShl(q, d))
                 half == BigShl(Big(1), d - 1)
                 up == \/ BigLess(half, low)
                       \/ low = half /\ (sticky \/ q[1] % 2 = 1)
             IN  BigShl(IF up THEN BigAdd(q, Big(1)) ELSE q, d)

\* the arithmetic of numbers: an integer as a number, x + y, x / c and x * c
\* rounded, x % c (exact) and Math.floor(x)
Num(n) == BigShl(Big(n), FracBits)
NumPlus(x, y) == RoundDouble(BigAdd(x, y), FALSE)
NumOver(x, c) ==
    LET r == BigDivSmall(x, c) IN RoundDouble(r.quot, r.rem # 0)
NumTimes(x, c) == RoundDouble(BigMulSmall(x, c), FALSE)
NumFloor(x) == Small(BigShr(x, FracBits))
NumRemainder(x, c) == BigSub(x, Num(c * (NumFloor(x) \div c)))

(* ------------------------------ timestamps ----------------------------- *)

\* A timestamp string is its four fields of digits and its separator.
\* parseTimestamp as the number of seconds it returns: the match of
\* (\d{2}):(\d{2}):(\d{2})\.(\d{3}) after the comma became a point
parseTimestampSeconds(timestamp) ==
    LET hours == timestamp.stamp[1]
        minutes == timestamp.stamp[2]
        seconds == timestamp.stamp[3]
        milliseconds == timestamp.stamp[4]
    IN  NumPlus(Num(hours * 3600 + minutes * 60 + seconds),
                NumOver(Num(milliseconds), 1000))

\* padStart fills up to the width and cuts nothing: the fields are the
\* numbers themselves
formatTimestamp(seconds, format) ==
    LET hours == NumFloor(NumOver(seconds, 3600))
        minutes == NumFloor(NumOver(NumRemainder(seconds, 3600), 60))
        secs == NumFloor(NumRemainder(seconds, 60))
        ms == NumFloor(NumTimes(NumRemainder(seconds, 1), 1000))
        separator == IF format = "srt" THEN "," ELSE "."
    IN  [stamp |-> <<hours, minutes, secs, ms>>, sep |-> separator]

(* ------------------------ timestamps on their own ---------------------- *)

\* well-formed timestamps: HH:MM:SS,mmm and HH:MM:SS.mmm
HourFields == {0, 1, 99}
MinuteFields == {0, 59}
SecondFields == {0, 1, 59}
MilliFields == (0..MaxMs) \cup {500, 999}
Timestamps ==
    { [stamp |-> <<h, m, s, ms>>, sep |-> p] :
        h \in HourFields, m \in MinuteFields, s \in SecondFields,
        ms \in MilliFields, p \in {",", "."} }

InitStamp ==
    /\ store = initialState
    /\ player = initialPlayer
    /\ drv = initialRefs
    /\ env = initialEnv
    /\ trace = <<>>
    /\ calls = <<>>
    /\ handler = "init"
    /\ arg = <<>>
    /\ rs = rsIdle
    /\ ps = psIdle
    /\ wm = wmIdle
    /\ sw = swIdle
    /\ lru = lruIdle
    /\ \E t \in Timestamps : st = [stIdle EXCEPT !.text = t]

\* the timestamp is parsed
ParseTimestamp ==
    /\ ~st.parsed
    /\ st' = [st EXCEPT !.seconds = parseTimestampSeconds(st.text),
                        !.parsed = TRUE]
    /\ handler' = "parseTimestamp"
    /\ UNCHANGED <<store, player, drv, env, trace, calls, arg, rs, ps, wm, sw,
                   lru>>

\* the seconds are formatted, in the format the timestamp was written in
FormatTimestamp ==
    /\ st.parsed
    /\ ~st.done
    /\ st' = [st EXCEPT
                !.out = formatTimestamp(st.seconds,
                            IF st.text.sep = "," THEN "srt" ELSE "vtt"),
                !.done = TRUE]
    /\ handler' = "formatTimestamp"
    /\ UNCHANGED <<store, player, drv, env, trace, calls, arg, rs, ps, wm, sw,
                   lru>>

NextStamp == ParseTimestamp \/ FormatTimestamp

SpecStamp == InitStamp /\ [][NextStamp]_vars

(* ============================== claims ================================= *)

ModeCount(m) ==
    (IF m.loop THEN 1 ELSE 0) + (IF m.seg THEN 1 ELSE 0)
    + (IF m.ab THEN 1 ELSE 0) + (IF m.shadow THEN 1 ELSE 0)

OnlyMode(name) ==
    [ loop |-> name = "loop", seg |-> name = "seg", ab |-> name = "ab",
      shadow |-> name = "shadow" ]

PointsValid(s) == s.pointA # Null /\ s.pointB # Null /\ s.pointB > s.pointA

\* C1: in every store state, and in every state published by a set() inside
\* an operation, at most one of the four mode flags is true; and after an
\* enable operation that succeeds exactly the mode it enables is active.
C1_ModesExclusive ==
    /\ ModeCount(Modes(store)) <= 1
    /\ \A k \in 1..Len(trace) : ModeCount(trace[k]) <= 1
    /\ handler = "enableLoop" => Modes(store) = OnlyMode("loop")
    /\ handler = "startSegmentLoop" => Modes(store) = OnlyMode("seg")
    /\ handler = "enableShadowing" => Modes(store) = OnlyMode("shadow")
    /\ (handler = "enableABRepeat" /\ PointsValid(store))
           => Modes(store) = OnlyMode("ab")

\* an enable operation that first had to switch another mode off
C1_Witness ==
    /\ handler \in {"enableLoop", "startSegmentLoop", "enableShadowing",
                    "enableABRepeat"}
    /\ Len(trace) = 2
    /\ ModeCount(trace[1]) = 0
    /\ ModeCount(Modes(store)) = 1

InvalidTime(t) == isNaN(t) \/ t < 0

\* C4: setPointA with a negative or NaN time, and setPointB with a negative or
\* NaN time, with point A unset or with a time not after point A, leave the
\* whole store unchanged and publish nothing.
C4_InvalidPointsRejected ==
    [][ ( \/ handler' = "setPointA" /\ InvalidTime(arg'[1])
          \/ handler' = "setPointB"
               /\ ( \/ InvalidTime(arg'[1])
                    \/ store.pointA = Null
                    \/ arg'[1] <= store.pointA ) )
        => (store' = store /\ trace' = <<>>) ]_vars

\* setPointB called with a time at or before point A while both points and
\* A/B repeat are set, and rejected
C4_Witness ==
    /\ handler = "setPointB"
    /\ ~InvalidTime(arg[1])
    /\ store.pointA # Null /\ store.pointB # Null
    /\ arg[1] <= store.pointA
    /\ store.pointB # arg[1]
    /\ store.abRepeatEnabled

BoundaryTick ==
    /\ handler' = "syncLoop"
    /\ player.bound
    /\ Abs(player.time - drv.lastTime) >= Eps
    /\ store.segmentLoopEnabled
    /\ player.time >= store.loopEnd

\* C6: a tick at the end of the looped segment seeks back to loopStart and
\* adds one repetition while completedReps < totalReps - 1, so that a loop of
\* N repetitions seeks back N - 1 times and never counts to N; the crossing
\* after that leaves the segment loop of that cue.
C6_SegmentLoopCounts ==
    [][ BoundaryTick =>
          IF store.segmentLoopCurrent < store.segmentLoopTotal - 1
          THEN /\ store'.segmentLoopEnabled
               /\ store'.segmentLoopIndex = store.segmentLoopIndex
               /\ store'.segmentLoopCurrent = store.segmentLoopCurrent + 1
               /\ store'.segmentLoopCurrent <= store'.segmentLoopTotal - 1
               /\ calls' = << <<"seekTo", store.loopStart>> >>
          ELSE ~( /\ store'.segmentLoopEnabled
                  /\ store'.segmentLoopIndex = store.segmentLoopIndex ) ]_vars

\* C7: a tick at the end of the looped segment with completedReps >=
\* totalReps - 1 ends that loop: it starts the loop of the next cue when
\* auto-advance is on and there is a next cue, and otherwise pauses the player
\* and clears segmentLoopEnabled.
C7_FinishedLoopEnds ==
    [][ (BoundaryTick /\ store.segmentLoopCurrent >= store.segmentLoopTotal - 1)
        => \/ /\ env.autoPlayNext
              /\ store'.segmentLoopEnabled
              /\ store'.segmentLoopIndex = store.segmentLoopIndex + 1
              /\ store'.segmentLoopCurrent = 0
           \/ /\ ~store'.segmentLoopEnabled
              /\ ~player'.playing ]_vars

\* C8: while the driver is set up, the shadowing resume timer fires only if
\* shadowing is still enabled: a timer that was pending when shadowing was
\* disabled has been canceled and never fires.
C8_TimerCanceledOnDisable ==
    [][ (handler' = "shadowingTimeout" /\ env.enabled)
        => store.shadowingEnabled ]_vars

\* C9: once the driver is torn down, the callback of the shadowing resume
\* timer makes no player call and does not set playing.
C9_TimerCanceledOnTeardown ==
    [][ (handler' = "shadowingTimeout" /\ ~env.enabled)
        => (calls' = <<>> /\ store'.playing = store.playing) ]_vars

\* C10: while the session is blocked no shadowing resume timer is pending and
\* the driver is not waiting for one.
C10_NoShadowingWhileBlocked ==
    env.isBlocked => (drv.timer = Null /\ ~drv.waiting)


\* the cues of a list that contain time t
Containing(cues, t) ==
    { i \in 0..(Len(cues) - 1) : At(cues, i).start <= t /\ t < At(cues, i).end }

\* C2: with the default hint -1, findIndexAtTime returns the index of a cue
\* containing the time when there is one, and -1 when the time lies in a gap,
\* before the first cue or after the last one.
C2_SearchReturnsContainingOrNone ==
    (handler = "findIndexAtTime" /\ rs.hint = -1)
    => IF Containing(rs.cues, rs.time) # {}
       THEN rs.result \in Containing(rs.cues, rs.time)
       ELSE rs.result = -1

\* C3: the result of findIndexAtTime does not depend on the hint: with any
\* hint it equals the result of the search from scratch (hint -1).
C3_HintIndependent ==
    handler = "findIndexAtTime"
    => rs.result = findIndexAtTime(rs.cues, rs.time, -1)

(* ----------------------- worker manager: shutdown ---------------------- *)

\* the promise of request id has been rejected
Rejected(id) == id < Len(wm.promise) /\ wm.promise[id + 1] = "rejected"

\* C11: every request that is pending when terminate() runs is rejected
\* afterwards; none stays pending forever.
C11_TerminateRejectsPending ==
    \A id \in 0..(MaxRequests - 1) :
        (wm.terminated /\ id \in wm.atTerminate) ~> Rejected(id)

\* C12: once terminate() has run, no promise returned before it becomes
\* resolved, whatever messages of the worker are still delivered.
C12_NoResolveAfterTerminate ==
    [][ wm.terminated
        => \A k \in DOMAIN wm.promise :
               wm'.promise[k] = "resolved" => wm.promise[k] = "resolved" ]_vars

\* a result message for a request that was pending at terminate() has been
\* delivered after it, and the promise has stayed unresolved
C12_Witness ==
    /\ handler = "handleMessage"
    /\ wm.terminated
    /\ arg[1] = "result"
    /\ arg[2] \in wm.atTerminate
    /\ wm.promise[arg[2] + 1] = "pending"

(* ------------------ worker manager: messages and failures -------------- *)

\* C13: a progress message the worker emits for a pending request that has
\* an onProgress callback is forwarded to that callback and leaves the
\* request pending.
C13_ProgressForwarded ==
    [][ (/\ handler' = "handleMessage"
         /\ arg'[1] = "progress"
         /\ arg'[3] \in wm.pendingRequests
         /\ arg'[3] \in wm.onProgress)
        => (/\ wm'.progress[arg'[3] + 1] = wm.progress[arg'[3] + 1] + 1
            /\ arg'[3] \in wm'.pendingRequests
            /\ wm'.promise[arg'[3] + 1] = "pending") ]_vars

\* the request a failure step is about: the one that timed out, the one the
\* worker failed on, or the one named by an error message
FailedRequest(h, a) ==
    IF h = "handleMessage" THEN a[2] ELSE a[1]

IsFailure(h, a) ==
    \/ h \in {"timeout", "handleError"}
    \/ (h = "handleMessage" /\ a[1] = "error")

\* C14: a timeout or a failure of one request leaves every other pending
\* request pending and in the pending table.
C14_FailureIsolated ==
    [][ IsFailure(handler', arg')
        => \A id \in wm.pendingRequests :
               id # FailedRequest(handler', arg')
               => (id \in wm'.pendingRequests
                   /\ wm'.promise[id + 1] = "pending") ]_vars

\* C15: a parse() call that takes the fallback returns what
\* SubtitleParser.parse returns for the same text and format.
C15_FallbackParsesSynchronously ==
    wm.sync.called
    => wm.sync.result = parse(wm.sync.text, wm.sync.format)

(* --------------------------- driver run levels ------------------------- *)

\* a frame callback of the driver is scheduled
FramePending == drv.rafId = "pending" \/ drv.orphans > 0

\* C16: while the store's playing flag is false no frame callback is
\* scheduled, so no tick runs until playing becomes true again.
C16_IdleWhilePaused == ~store.playing => ~FramePending

\* C17: a bad frame does not end synchronization: while the driver is set
\* up, playing is true and the player is readable, a frame is scheduled.
C17_BadFrameKeepsLoop ==
    (env.enabled /\ drv.subscribed /\ store.playing /\ player.bound)
    => FramePending

(* --------------------------- active cue index -------------------------- *)

\* the store operations that can change activeIndex
IndexOps ==
    {"setActiveIndex", "setSubtitles", "playNextSegment",
     "playPreviousSegment", "reset"}

\* C18: a store operation that changes activeIndex leaves activeWordIndex
\* equal to -1.
C18_WordIndexResetOnCueChange ==
    [][ (handler' \in IndexOps /\ store'.activeIndex # store.activeIndex)
        => store'.activeWordIndex = -1 ]_vars

ActiveIndexInRange ==
    store.activeIndex = -1
    \/ (0 <= store.activeIndex /\ store.activeIndex < Len(store.subtitles))

\* C19: activeIndex is -1 or a valid position of subtitles in every state,
\* and setActiveIndex with an out-of-range index other than -1 changes nothing.
C19_ActiveIndexValid ==
    /\ []ActiveIndexInRange
    /\ [][ (/\ handler' = "setActiveIndex"
            /\ arg'[1] # -1
            /\ ~(0 <= arg'[1] /\ arg'[1] < Len(store.subtitles)))
           => store' = store ]_vars

\* setActiveIndex was called with an index past the list while a cue was active
C19_Witness ==
    /\ handler = "setActiveIndex"
    /\ arg[1] >= Len(store.subtitles)
    /\ store.activeIndex >= 0

(* ------------------------------ parser output -------------------------- *)

\* C20: every cue parse returns has end > start and a non-empty text.
C20_CuesWellFormed ==
    ps.parsed
    => \A k \in 1..Len(ps.cues) :
           /\ ps.cues[k].end > ps.cues[k].start
           /\ ~isEmptyString(ps.cues[k].text)

\* C21: the index of every cue parse returns is its position in the returned
\* list, also when earlier blocks of the text were skipped.
C21_IndexIsPosition ==
    ps.parsed => \A k \in 1..Len(ps.cues) : ps.cues[k].index = k - 1

(* --------------------------- unrecognized format ----------------------- *)

\* a text that is not blank and that detectFormat does not recognize
Unrecognized(lines) == ~isBlankText(lines) /\ detectFormat(lines) = "unknown"

\* C22: a text of unrecognized format yields the empty list on both paths:
\* parse returns <<>> for it, and when the worker's answer for a pending
\* request with that text arrives, the request is resolved with <<>>.
C22_UnknownFormatYieldsEmpty ==
    [][ (/\ handler' = "handleMessage"
         /\ arg'[1] \in {"result", "error"}
         /\ arg'[2] \in wm.pendingRequests
         /\ Unrecognized(wm.texts[arg'[2] + 1]))
        => (/\ parse(wm.texts[arg'[2] + 1], "none") = <<>>
            /\ wm'.promise[arg'[2] + 1] = "resolved"
            /\ wm'.value[arg'[2] + 1] = <<>>) ]_vars

(* ----------------------------- segment loop start ---------------------- *)

\* C23: startSegmentLoop(start, end, totalReps, cueIndex) seeks the bound
\* player to start and leaves the store with the segment loop enabled, no
\* completed repetition, the given total and cue index, and the playing flag
\* it had before the call; without a bound player the store is updated the
\* same way and no player call is made.
C23_StartSegmentLoop ==
    [][ handler' = "startSegmentLoop"
        => (/\ store'.segmentLoopEnabled
            /\ store'.segmentLoopCurrent = 0
            /\ store'.segmentLoopTotal = arg'[3]
            /\ store'.segmentLoopIndex = arg'[4]
            /\ store'.playing = store.playing
            /\ IF store.playerRef
               THEN calls' = << <<"seekTo", arg'[1]>> >> /\ player'.time = arg'[1]
               ELSE calls' = <<>> /\ player' = player) ]_vars

\* startSegmentLoop was called during playback with a player bound
C23_Witness ==
    /\ handler = "startSegmentLoop"
    /\ store.playing
    /\ store.playerRef
    /\ calls = << <<"seekTo", arg[1]>> >>

\* startSegmentLoop was called with no player bound
C23_WitnessUnbound ==
    /\ handler = "startSegmentLoop"
    /\ ~store.playerRef
    /\ store.segmentLoopEnabled

(* --------------------------------- reset ------------------------------- *)

\* the mode fields and the cue-tracking fields of the store
ModeAndTrackingFields ==
    { "loopEnabled", "loopStart", "loopEnd",
      "segmentPlayEnabled", "segmentPlayEnd",
      "segmentLoopEnabled", "segmentLoopTotal", "segmentLoopCurrent",
      "segmentLoopIndex",
      "abRepeatEnabled", "pointA", "pointB",
      "shadowingEnabled", "shadowingPauseFactor",
      "currentTime", "activeIndex", "activeWordIndex", "subtitles" }

PreferenceFields ==
    {"subtitleConfig", "videoFit", "showInlineSubtitles", "volume"}

\* C24: reset() restores every mode field and every cue-tracking field to
\* its initial value and leaves subtitleConfig, videoFit,
\* showInlineSubtitles and volume as they were.
C24_ResetKeepsPreferences ==
    [][ handler' = "reset"
        => (/\ \A f \in ModeAndTrackingFields : store'[f] = initialState[f]
            /\ \A f \in PreferenceFields : store'[f] = store[f]) ]_vars

\* reset() was called with every preference away from its initial value
C24_Witness ==
    /\ handler = "reset"
    /\ \A f \in PreferenceFields : store[f] # initialState[f]

(* ----------------------------- shadowing delay ------------------------- *)

\* the three tiers, with the adaptive tier taken by the predicate adaptive
TierWait(d, f, adaptive) ==
    IF adaptive THEN d * 1100 + 1000 * 1000
    ELSE IF f <= 1000 THEN Max(1000 * 1000, d * f)
    ELSE Max(1500 * 1000, d * f)

\* C25, as stated: the wait for duration d and factor f is d*1000*1.1 + 1000
\* when f is exactly 1.1, max(1000, d*1000*f) when f <= 1.0 and
\* max(1500, d*1000*f) otherwise, so that a factor near 1.1 but different
\* from it (1.105) is in the last tier.
C25_WaitByExactTier ==
    sw.done => sw.wait = TierWait(sw.duration, sw.factor, sw.factor = 1100)

\* C25: the wait for duration d and factor f is d*1000*1.1 + 1000 when f is
\* within 0.01 of 1.1, max(1000, d*1000*f) when f <= 1.0 and
\* max(1500, d*1000*f) otherwise; (1.1, 2.0 s) gives 3200 ms, (0.8, 0.5 s)
\* gives 1000 ms and (2.0, 1.0 s) gives 2000 ms.
C25_WaitByTier ==
    sw.done =>
        /\ sw.wait = TierWait(sw.duration, sw.factor,
                              Abs(sw.factor - 1100) < 10)
        /\ (sw.factor = 1100 /\ sw.duration = 2000) => sw.wait = 3200 * 1000
        /\ (sw.factor = 800 /\ sw.duration = 500) => sw.wait = 1000 * 1000
        /\ (sw.factor = 2000 /\ sw.duration = 1000) => sw.wait = 2000 * 1000

\* the delay was computed for a factor of 1.105 and a sentence of 2 s
C25_Witness ==
    /\ sw.done
    /\ sw.factor = 1105
    /\ sw.duration = 2000
    /\ sw.wait = 3200 * 1000

(* ---------------------------- boundary actions ------------------------- *)

\* A/B repeat is enabled with both points set
ABActive == store.abRepeatEnabled /\ store.pointA # Null /\ store.pointB # Null

C27_ResumeTimerFires ==
    [][ handler' = "shadowingTimeout"
        => LET nextIndex == drv.timer + 1
               subtitles == drv.timerSubs
           IN  /\ ~drv'.waiting
               /\ IF nextIndex < Len(subtitles)
                  THEN /\ calls' = << <<"seekTo", At(subtitles, nextIndex).start>>,
                                      <<"playVideo">> >>
                       /\ player'.time = At(subtitles, nextIndex).start
                       /\ player'.playing
                       /\ store'.playing
                  ELSE /\ calls' = <<>>
                       /\ player' = player
                       /\ store'.playing = store.playing ]_vars

\* the timer armed at the end of the first cue fired and playback resumed
C27_Witness ==
    /\ handler = "shadowingTimeout"
    /\ arg = <<0>>
    /\ ~drv.waiting
    /\ store.playing
    /\ calls = << <<"seekTo", CueStart(1)>>, <<"playVideo">> >>

\* the timer armed at the end of the last cue fired and playback stayed paused
C27_WitnessLast ==
    /\ handler = "shadowingTimeout"
    /\ arg = <<NCues - 1>>
    /\ ~drv.waiting
    /\ ~store.playing
    /\ calls = <<>>

(* ------------------------------ request timeout ------------------------ *)

TimeoutError == "Worker timeout after 30s"

\* C28: when the 30 s guard of a request that is still pending fires, the
\* request is rejected with the timeout error and leaves the pending table;
\* a result message that arrives for a request no longer in the table
\* changes nothing of the manager but the message being consumed.
C28_TimeoutRejects ==
    /\ [][ (handler' = "timeout" /\ arg'[1] \in wm.pendingRequests)
           => (/\ wm'.promise[arg'[1] + 1] = "rejected"
               /\ wm'.error[arg'[1] + 1] = TimeoutError
               /\ arg'[1] \notin wm'.pendingRequests) ]_vars
    /\ [][ (/\ handler' = "handleMessage"
            /\ arg'[1] = "result"
            /\ arg'[2] \notin wm.pendingRequests)
           => wm' = [wm EXCEPT !.outbox = Tail(@)] ]_vars

\* the result of a request arrived after its timeout had rejected it
C28_Witness ==
    /\ handler = "handleMessage"
    /\ arg[1] = "result"
    /\ wm.promise[arg[2] + 1] = "rejected"
    /\ wm.error[arg[2] + 1] = TimeoutError
    /\ arg[2] \notin wm.pendingRequests

(* ------------------------------ parsing path --------------------------- *)

\* C29: parseContent hands a payload to the worker exactly when its size is
\* at least 100 KB (102400 bytes) and worker support is available; otherwise
\* it parses the payload synchronously.
C29_WorkerFromThreshold ==
    [][ handler' = "parseContent"
        => IF arg'[1] >= WORKER_THRESHOLD /\ isWorkerSupported(wm)
           THEN /\ wm'.requestIdCounter = wm.requestIdCounter + 1
                /\ Len(wm'.inbox) = Len(wm.inbox) + 1
                /\ ps' = ps
           ELSE /\ wm' = wm
                /\ ps'.parsed
                /\ ps'.cues = parse(ps'.text, ps'.format) ]_vars

(* --------------------------- worker and parser ------------------------- *)

\* the last message the worker posts for a text and a format
WorkerAnswer(lines, format) ==
    LET messages == workerOnMessage([id |-> 0, text |-> lines,
                                     format |-> format])
    IN  messages[Len(messages)]

\* C30: for every text and format that the worker answers with a result, the
\* cues of that result are the cues SubtitleParser.parse returns: the same
\* number, in the same order, with the same id, index, start, end and text.
C30_WorkerEqualsParser ==
    ps.parsed
    => LET answer == WorkerAnswer(ps.text, ps.format)
       IN  answer.type = "result" => answer.data = ps.cues

(* --------------------------- timestamp round trip ---------------------- *)

\* C31: formatting the seconds parsed from a well-formed timestamp, in the
\* timestamp's own format, gives the timestamp back: the same hour, minute,
\* second and millisecond fields and the same separator.
C31_RoundTrip == st.done => st.out = st.text

(* --------------------------- duplicate frames -------------------------- *)

\* a tick that finds the player within 0.01 s of the time it processed last
DuplicateFrame ==
    /\ handler' = "syncLoop"
    /\ player.bound
    /\ Abs(player.time - drv.lastTime) < Eps

\* C32: a tick whose player time is less than 0.01 s from the time processed
\* last writes nothing to the store, calls no player control, leaves the
\* shadowing state and the processed time as they are, and only schedules
\* the next frame.
C32_DuplicateFrameOnlyReschedules ==
    [][DuplicateFrame =>
          /\ store' = store
          /\ player' = player
          /\ trace' = <<>>
          /\ calls' = <<>>
          /\ drv'.rafId = "pending"
          /\ [drv' EXCEPT !.rafId = "null", !.orphans = 0]
               = [drv EXCEPT !.rafId = "null", !.orphans = 0]]_vars

\* a tick 5 ms after the processed time was de-duplicated during playback
C32_Witness ==
    /\ handler = "syncLoop"
    /\ player.bound
    /\ player.time = 1
    /\ drv.lastTime = 0
    /\ drv.rafId = "pending"
    /\ store.playing
    /\ trace = <<>>

(* ----------------------------- pending frames -------------------------- *)

\* the number of frame callbacks of the driver that are pending
PendingFrames == (IF drv.rafId = "pending" THEN 1 ELSE 0) + drv.orphans

\* C33: at most one frame callback of the driver is pending at any time, and
\* a pending callback is the one whose handle rafIdRef holds, so that
\* cancelAnimationFrame of the stored handle cancels the only pending tick.
C33_OneFramePending ==
    /\ PendingFrames <= 1
    /\ PendingFrames = 1 => drv.rafId = "pending"

\* the resume timer set playing while the frame requested by the pausing tick
\* was still pending: the subscriber started no second loop
C33_Witness ==
    /\ handler = "shadowingTimeout"
    /\ store.playing
    /\ drv.isPlaying
    /\ drv.rafId = "pending"
    /\ PendingFrames = 1

(* --------------------------- shadowing trigger ------------------------- *)

\* a processed tick with shadowing enabled, near the end of the active cue,
\* while the driver waits for the resume timer or has triggered on this cue
GuardedShadowTick ==
    /\ handler' = "syncLoop"
    /\ player.bound
    /\ Abs(player.time - drv.lastTime) >= Eps
    /\ store.shadowingEnabled
    /\ store.activeIndex >= 0
    /\ store.activeIndex < Len(drv.capSubs)
    /\ player.time >= At(drv.capSubs, store.activeIndex).end - ShadowLead
    /\ (drv.waiting \/ drv.lastShadowIdx = store.activeIndex)

\* C34: while the waiting flag is set, or while the active cue is the cue
\* that triggered last, a tick near the end of the active cue does not pause
\* the player, does not clear the playing flag and arms no timer: the waiting
\* flag, the pending timer and the cue triggered last stay as they are.
C34_ShadowingTriggersOnce ==
    [][GuardedShadowTick =>
          /\ \A k \in 1..Len(calls') : calls'[k] # <<"pauseVideo">>
          /\ store'.playing = store.playing
          /\ drv'.waiting = drv.waiting
          /\ drv'.timer = drv.timer
          /\ drv'.timerSubs = drv.timerSubs
          /\ drv'.lastShadowIdx = drv.lastShadowIdx]_vars

\* a tick was processed near the end of the cue while the resume timer of
\* that cue was pending
C34_Witness ==
    /\ handler = "syncLoop"
    /\ store.shadowingEnabled
    /\ drv.waiting
    /\ drv.timer = store.activeIndex
    /\ drv.lastShadowIdx = store.activeIndex
    /\ store.activeIndex >= 0
    /\ store.activeIndex < Len(drv.capSubs)
    /\ player.time >= At(drv.capSubs, store.activeIndex).end - ShadowLead
    /\ drv.lastTime = player.time
    /\ calls = <<>>

\* after the timer of the last cue fired, playback went on and a tick was
\* processed on the same cue without triggering again
C34_WitnessSameCue ==
    /\ handler = "syncLoop"
    /\ store.shadowingEnabled
    /\ ~drv.waiting
    /\ drv.timer = Null
    /\ store.playing
    /\ store.activeIndex >= 0
    /\ store.activeIndex < Len(drv.capSubs)
    /\ drv.lastShadowIdx = store.activeIndex
    /\ player.time >= At(drv.capSubs, store.activeIndex).end - ShadowLead
    /\ drv.lastTime = player.time

(* ------------------------------ A/B points ----------------------------- *)

\* C35: whenever A/B repeat is enabled, point A and point B are both set and
\* point A is before point B.
C35_ABPointsOrdered ==
    store.abRepeatEnabled =>
        /\ store.pointA # Null
        /\ store.pointB # Null
        /\ store.pointA < store.pointB

(* --------------------------- repetition counter ------------------------ *)

\* C36: the count of completed repetitions grows only in a tick of the driver
\* that finds the end of the looped segment, by one; every other change of it
\* is a reset to 0; and while the segment loop is enabled with a total of at
\* least 1 the count is between 0 and the total minus 1.
C36_RepsOnlyByDriver ==
    /\ [](store.segmentLoopEnabled /\ store.segmentLoopTotal >= 1
            => /\ 0 <= store.segmentLoopCurrent
               /\ store.segmentLoopCurrent <= store.segmentLoopTotal - 1)
    /\ [][store'.segmentLoopCurrent # store.segmentLoopCurrent
            => \/ store'.segmentLoopCurrent = 0
               \/ /\ handler' = "syncLoop"
                  /\ store.segmentLoopEnabled
                  /\ player.time >= store.loopEnd
                  /\ store'.segmentLoopCurrent
                       = store.segmentLoopCurrent + 1]_vars

\* the driver counted the last repetition but one of a loop of MaxReps
C36_Witness ==
    /\ handler = "syncLoop"
    /\ store.segmentLoopEnabled
    /\ store.segmentLoopTotal = MaxReps
    /\ store.segmentLoopCurrent = MaxReps - 1
    /\ Len(calls) = 1

(* --------------------------- settling of requests ---------------------- *)

\* C37: for every request of the manager, resolve and reject were invoked at
\* most once together, and no two dispatched requests carry the same id.
C37_SettlesOnce ==
    /\ \A k \in 1..Len(wm.invoked) : wm.invoked[k] <= 1
    /\ \A i, j \in 1..Len(wm.ids) : i # j => wm.ids[i] # wm.ids[j]

\* the result of a request arrived after its timeout had rejected it, and was
\* dropped, while a second request had been dispatched
C37_Witness ==
    /\ handler = "handleMessage"
    /\ arg[1] = "result"
    /\ Len(wm.ids) = 2
    /\ wm.promise[arg[2] + 1] = "rejected"
    /\ wm.error[arg[2] + 1] = "Worker timeout after 30s"
    /\ wm.invoked[arg[2] + 1] = 1

(* ------------------------- the one-shot play mode ---------------------- *)

\* the store's mode operations with the one-shot play of a sentence
NextModes ==
    \/ SetSubtitles
    \/ PlaySegment
    \/ EnableLoop \/ DisableLoop
    \/ StartSegmentLoop \/ StopSegmentLoop
    \/ SetPointA \/ SetPointB \/ EnableABRepeat \/ DisableABRepeat
    \/ EnableShadowing \/ DisableShadowing

SpecModes == Init /\ [][NextModes]_vars

\* C38: the one-shot segment play mode is never enabled together with the
\* single loop, the segment loop, A-B repeat or shadowing.
C38_SegmentPlayExclusive ==
    store.segmentPlayEnabled =>
        /\ ~store.loopEnabled
        /\ ~store.segmentLoopEnabled
        /\ ~store.abRepeatEnabled
        /\ ~store.shadowingEnabled

(* ------------------------ the looped cue's position -------------------- *)

\* C39: while the segment loop is on with an index, the index is a position
\* of the subtitle list and the cue there spans loopStart..loopEnd.
C39_LoopIndexIsLoopedCue ==
    (store.segmentLoopEnabled /\ store.segmentLoopIndex # -1) =>
        /\ store.segmentLoopIndex >= 0
        /\ store.segmentLoopIndex < Len(store.subtitles)
        /\ At(store.subtitles, store.segmentLoopIndex).start = store.loopStart
        /\ At(store.subtitles, store.segmentLoopIndex).end = store.loopEnd

(* ------------------------------ LRU cache ------------------------------ *)

\* keys and values given to the cache: more keys than the largest capacity
CacheKeys == 0..MaxCap
CacheValues == {1, 2}

\* a node is named by its key: the map holds one node per key. A node that is
\* in neither the map nor the list is unreachable and has this content.
NoNode == [value |-> Null, prev |-> Null, next |-> Null]

\* the keys of the list from node n along next / prev, at most steps long
RECURSIVE Forward(_, _, _)
Forward(c, n, steps) ==
    IF n = Null \/ steps = 0 THEN <<>>
    ELSE <<n>> \o Forward(c, c.node[n].next, steps - 1)

RECURSIVE Backward(_, _, _)
Backward(c, n, steps) ==
    IF n = Null \/ steps = 0 THEN <<>>
    ELSE <<n>> \o Backward(c, c.node[n].prev, steps - 1)

ListKeys(c) == Forward(c, c.head, MaxCap + 2)
ListKeysBack(c) == Backward(c, c.tail, MaxCap + 2)
Elems(q) == { q[i] : i \in 1..Len(q) }

\* unreachable nodes are dropped
collect(c) ==
    [c EXCEPT !.node = [k \in CacheKeys |->
        IF k \in c.cache \/ k \in Elems(ListKeys(c)) \/ k \in Elems(ListKeysBack(c))
        THEN c.node[k] ELSE NoNode]]

\* new LRUCache(capacity)
newCache(capacity) ==
    [capacity |-> capacity, cache |-> {}, node |-> [k \in CacheKeys |-> NoNode],
     head |-> Null, tail |-> Null, size |-> 0,
     \* history: the cached keys from the most to the least recently read or
     \* written, and for the last operation the keys it removed, whether the
     \* cache was full, whether the key was new, and the oldest key before it
     recent |-> <<>>, evicted |-> {}, full |-> FALSE, fresh |-> FALSE,
     oldest |-> Null]

addToHead(c, n) ==
    LET c1 == [c EXCEPT !.node[n].prev = Null, !.node[n].next = c.head]
        c2 == IF c1.head # Null THEN [c1 EXCEPT !.node[c1.head].prev = n] ELSE c1
        c3 == [c2 EXCEPT !.head = n]
    IN  IF c3.tail = Null THEN [c3 EXCEPT !.tail = n] ELSE c3

removeNode(c, n) ==
    LET c1 == IF c.node[n].prev # Null
              THEN [c EXCEPT !.node[c.node[n].prev].next = c.node[n].next]
              ELSE [c EXCEPT !.head = c.node[n].next]
    IN  IF c1.node[n].next # Null
        THEN [c1 EXCEPT !.node[c1.node[n].next].prev = c1.node[n].prev]
        ELSE [c1 EXCEPT !.tail = c1.node[n].prev]

\* moveToHead that leaves the node where it is
moveToHead_keepPlace(c, n) == c

moveToHead(c, n) ==
    IF n = c.head THEN c ELSE addToHead(removeNode(c, n), n)

removeTail(c) ==
    IF c.tail = Null THEN c
    ELSE LET tailNode == c.tail
             c1 == [c EXCEPT !.cache = @ \ {tailNode}]
             c2 == removeNode(c1, tailNode)
         IN  [c2 EXCEPT !.size = @ - 1]

get(c, key) ==
    IF key \notin c.cache THEN c ELSE moveToHead(c, key)

set(c, key, value) ==
    IF key \in c.cache
    THEN moveToHead([c EXCEPT !.node[key].value = value], key)
    ELSE LET c1 == [c EXCEPT !.node[key] = [value |-> value, prev |-> Null,
                                            next |-> Null],
                             !.cache = @ \cup {key}]
             c2 == addToHead(c1, key)
             c3 == [c2 EXCEPT !.size = @ + 1]
         IN  IF c3.size > c3.capacity THEN removeTail(c3) ELSE c3

delete(c, key) ==
    IF key \notin c.cache THEN c
    ELSE LET c1 == removeNode(c, key)
         IN  [c1 EXCEPT !.cache = @ \ {key}, !.size = @ - 1]

clear(c) == [c EXCEPT !.cache = {}, !.head = Null, !.tail = Null, !.size = 0]

\* while (this.size > this.capacity) this.removeTail()
RECURSIVE shrink(_, _)
shrink(c, steps) ==
    IF c.size > c.capacity /\ steps > 0 THEN shrink(removeTail(c), steps - 1)
    ELSE c

resize(c, newCapacity) ==
    IF newCapacity < 1 THEN c
    ELSE shrink([c EXCEPT !.capacity = newCapacity], MaxCap + 2)

\* the history after an operation that took c0 to c1 and read or wrote the
\* keys in touched
Touch(recent, key) ==
    <<key>> \o SelectSeq(recent, LAMBDA k : k # key)

Recorded(c0, c1, touched) ==
    LET r1 == IF touched = {} THEN c0.recent
              ELSE Touch(c0.recent, CHOOSE k \in touched : TRUE)
    IN  [collect(c1) EXCEPT
            !.recent = SelectSeq(r1, LAMBDA k : k \in c1.cache),
            !.evicted = c0.cache \ c1.cache,
            !.full = c0.size >= c0.capacity,
            !.fresh = touched \cap c0.cache = {},
            !.oldest = IF c0.recent = <<>> THEN Null
                       ELSE c0.recent[Len(c0.recent)]]

\* the value get() returns: 0 stands for undefined
valueOf(c, key) == IF key \in c.cache THEN c.node[key].value ELSE 0

CacheStep(c1, touched, h, a) ==
    /\ lru' = Recorded(lru, c1, touched)
    /\ handler' = h
    /\ arg' = a
    /\ UNCHANGED <<store, player, drv, env, trace, calls, rs, ps, wm, sw, st>>

CacheGet ==
    \E k \in CacheKeys :
        CacheStep(get(lru, k), {k} \cap lru.cache, "get", <<k, valueOf(lru, k)>>)

CacheSet ==
    \E k \in CacheKeys, v \in CacheValues :
        CacheStep(set(lru, k, v), {k}, "set", <<k, v>>)

CacheDelete ==
    \E k \in CacheKeys :
        CacheStep(delete(lru, k), {}, "delete", <<k, k \in lru.cache>>)

CacheClear == CacheStep(clear(lru), {}, "clear", <<>>)

\* resize(0) throws and changes nothing
CacheResize ==
    \E n \in 0..MaxCap :
        CacheStep(resize(lru, n), {}, "resize", <<n>>)

InitCache ==
    /\ store = initialState
    /\ player = initialPlayer
    /\ drv = initialRefs
    /\ env = initialEnv
    /\ trace = <<>>
    /\ calls = <<>>
    /\ handler = "init"
    /\ arg = <<>>
    /\ rs = rsIdle
    /\ ps = psIdle
    /\ wm = wmIdle
    /\ sw = swIdle
    /\ st = stIdle
    /\ \E capacity \in 1..MaxCap : lru = newCache(capacity)

NextCache ==
    CacheGet \/ CacheSet \/ CacheDelete \/ CacheClear \/ CacheResize

SpecCache == InitCache /\ [][NextCache]_vars

\* C40: the size counter, the map and the list agree, the size never exceeds
\* the capacity, head and tail are null exactly when the cache is empty, and a
\* set of a new key on a full cache removes exactly the least recently read
\* or written key, while any other set removes none.
C40_CacheConsistent ==
    /\ lru.size = Cardinality(lru.cache)
    /\ lru.size = Len(ListKeys(lru))
    /\ Elems(ListKeys(lru)) = lru.cache
    /\ ListKeysBack(lru) =
           [i \in 1..Len(ListKeys(lru)) |->
               ListKeys(lru)[Len(ListKeys(lru)) + 1 - i]]
    /\ lru.size <= lru.capacity
    /\ lru.capacity >= 1
    /\ (lru.head = Null) <=> (lru.size = 0)
    /\ (lru.tail = Null) <=> (lru.size = 0)
    /\ handler = "set" =>
           lru.evicted = IF lru.full /\ lru.fresh THEN {lru.oldest} ELSE {}

\* a set of a new key on a full cache of capacity 2 or more removed the least
\* recently used key and put the new key at the head
C40_Witness ==
    /\ handler = "set"
    /\ lru.full /\ lru.fresh
    /\ lru.capacity >= 2
    /\ lru.evicted = {lru.oldest}
    /\ lru.head = arg[1]
    /\ lru.size = lru.capacity

====
